---- MODULE Spec2Model ----
(***************************************************************************)
(* A model of the my-food-sorted backend (src/src/server.ts, the auth      *)
(* middleware and the schema): the request handlers as step-wise state     *)
(* machines over the relational tables, the Plan Extractor as a pure       *)
(* function over token sequences, and the session state of the frontend's  *)
(* App component.                                                          *)
(***************************************************************************)
EXTENDS Integers, Sequences, FiniteSets, Bags, TLC

VARIABLES
  text,      \* Plan Extractor: the assistant text handed to parseRecipeJSON
  parsed,    \* Plan Extractor: what parseRecipeJSON returned (NotRun before the call)
  users,     \* table users
  userSeq,   \* users_id_seq
  meal_plans,           \* table meal_plans
  recipes,              \* table recipes
  ingredients,          \* table ingredients
  shopping_lists,       \* table shopping_lists
  shopping_list_items,  \* table shopping_list_items
  seqs,      \* the SERIAL sequences of the plan tables
  chat_messages,        \* table chat_messages, in timestamp order
  apiKeySet, \* whether CLAUDE_API_KEY is set in the environment
  modelCalls,\* number of calls made to the external model API
  req,       \* per request slot: route, header, body, position, response
  loc,       \* per request slot: the handler's local variables
  checkedOut,\* number of pool connections checked out and not yet released
  app,       \* frontend: the useState values of the App component
  fetches    \* frontend: the fetch calls of App that await their response

vars == <<text, parsed, users, userSeq, meal_plans, recipes, ingredients,
          shopping_lists, shopping_list_items, seqs, chat_messages, apiKeySet,
          modelCalls, req, loc, checkedOut, app, fetches>>

planVars == <<meal_plans, recipes, ingredients, shopping_lists, shopping_list_items, seqs>>
userVars == <<users, userSeq>>
parseVars == <<text, parsed>>
chatVars == <<chat_messages, apiKeySet, modelCalls>>
clientVars == <<app, fetches>>
serverVars == <<text, parsed, users, userSeq, meal_plans, recipes, ingredients,
                shopping_lists, shopping_list_items, seqs, chat_messages, apiKeySet,
                modelCalls, req, loc, checkedOut>>

(***************************************************************************)
(* JavaScript values and strings.  A string is a sequence of one-character *)
(* strings; a JS value is a tagged record.                                 *)
(***************************************************************************)
Undefined == [t |-> "undef"]
Null == [t |-> "null"]
Str(s) == [t |-> "str", s |-> s]
Num(n) == [t |-> "num", n |-> n]

IsString(v) == v.t = "str"
IsNumber(v) == v.t = "num"

RECURSIVE TrimLeft(_)
TrimLeft(s) == IF s # <<>> /\ Head(s) = " " THEN TrimLeft(Tail(s)) ELSE s

RECURSIVE TrimRight(_)
TrimRight(s) ==
  IF s # <<>> /\ s[Len(s)] = " " THEN TrimRight(SubSeq(s, 1, Len(s) - 1)) ELSE s

\* String.prototype.trim
Trim(s) == TrimRight(TrimLeft(s))

\* String.prototype.slice(0, n)
Slice0(s, n) == IF Len(s) <= n THEN s ELSE SubSeq(s, 1, n)

(***************************************************************************)
(* Plan Extractor.  The text is a sequence of lexical tokens:              *)
(*   "{" "}" "[" "]"   the four brackets,                                  *)
(*   "R"               the member name "recipes" with its colon,           *)
(*   "s"               a brace-free scalar (a number or a word of prose).  *)
(***************************************************************************)
Tokens == {"{", "}", "[", "]", "R", "s"}

MaxLen == 6

Texts == UNION {[1..n -> Tokens] : n \in 0..MaxLen}

NotRun == [t |-> "notrun"]
SyntaxError == [t |-> "throw"]

\* JSON.parse on a token sequence, by recursive descent: the value starting at
\* position i, as [ok, val, next].
RECURSIVE ParseValue(_, _)
ParseValue(toks, i) ==
  LET bad == [ok |-> FALSE, val |-> SyntaxError, next |-> i]
  IN  IF i > Len(toks) THEN bad
      ELSE IF toks[i] = "s" THEN [ok |-> TRUE, val |-> [t |-> "scalar"], next |-> i + 1]
      ELSE IF toks[i] = "[" THEN
        IF i + 1 <= Len(toks) /\ toks[i + 1] = "]"
          THEN [ok |-> TRUE, val |-> [t |-> "arr", items |-> <<>>], next |-> i + 2]
          ELSE LET e == ParseValue(toks, i + 1)
               IN  IF e.ok /\ e.next <= Len(toks) /\ toks[e.next] = "]"
                     THEN [ok |-> TRUE, val |-> [t |-> "arr", items |-> <<e.val>>],
                           next |-> e.next + 1]
                     ELSE bad
      ELSE IF toks[i] = "{" THEN
        IF i + 1 <= Len(toks) /\ toks[i + 1] = "}"
          THEN [ok |-> TRUE, val |-> [t |-> "obj", recipes |-> Undefined], next |-> i + 2]
          ELSE IF i + 1 <= Len(toks) /\ toks[i + 1] = "R"
            THEN LET m == ParseValue(toks, i + 2)
                 IN  IF m.ok /\ m.next <= Len(toks) /\ toks[m.next] = "}"
                       THEN [ok |-> TRUE, val |-> [t |-> "obj", recipes |-> m.val],
                             next |-> m.next + 1]
                       ELSE bad
            ELSE bad
      ELSE bad

\* JSON.parse: the value, or SyntaxError when the text is not exactly one value.
JSONParse(toks) ==
  LET r == ParseValue(toks, 1)
  IN  IF r.ok /\ r.next = Len(toks) + 1 THEN r.val ELSE SyntaxError

\* Array.isArray
IsArray(v) == v.t = "arr"

\* text.match(/\{[\s\S]*\}/): the span from the first "{" to the last "}" after
\* it, or Null when there is none.
BraceMatch(s) ==
  LET opens == {i \in 1..Len(s) : s[i] = "{"}
  IN  IF opens = {} THEN Null
      ELSE LET first == CHOOSE i \in opens : \A k \in opens : i <= k
               closes == {j \in 1..Len(s) : s[j] = "}" /\ j > first}
           IN  IF closes = {} THEN Null
               ELSE LET last == CHOOSE j \in closes : \A k \in closes : k <= j
                    IN  Str(SubSeq(s, first, last))

\* A variant of the acceptance test that forgets Array.isArray.
AcceptsPlanNoArrayCheck(p) == p.t = "obj" /\ p.recipes # Undefined

\* A variant of the acceptance test that wants at least one recipe.
AcceptsPlanNonEmpty(p) == p.t = "obj" /\ IsArray(p.recipes) /\ p.recipes.items # <<>>

\* The acceptance test of parseRecipeJSON on a parsed value.
AcceptsPlan(p) == p.t = "obj" /\ IsArray(p.recipes)

parseRecipeJSON(s) ==
  LET jsonMatch == BraceMatch(s)
  IN  IF jsonMatch = Null THEN Null
      ELSE LET p == JSONParse(jsonMatch.s)
           IN  IF p = SyntaxError THEN Null       \* catch { return null }
               ELSE IF AcceptsPlan(p) THEN p ELSE Null

ParseInit ==
  /\ text \in Texts
  /\ parsed = NotRun

\* The chat handler hands the assistant text to parseRecipeJSON.
ExtractPlan ==
  /\ parsed = NotRun
  /\ parsed' = parseRecipeJSON(text)
  /\ UNCHANGED text

(***************************************************************************)
(* Request slots.  A slot holds one HTTP request from its arrival to the   *)
(* closing of its connection.                                              *)
(***************************************************************************)
NReq == 2

Reqs == 1..NReq

IdleReq == [route |-> "idle", hdr |-> Undefined, body |-> Undefined, pc |-> "idle",
            user |-> Undefined, nextCalls |-> 0, status |-> 0, resp |-> Undefined,
            sent |-> 0]

InFlight(r) == req[r].pc \notin {"idle", "done"}

\* A request is dispatched on an idle slot and its handler runs up to its first
\* await (Node runs the middleware chain and the handler's synchronous prefix
\* in one turn of the event loop): const client = await pool.connect(), after
\* which it holds a connection and waits at `label` inside try { ... }.
Begin(r, route, hdr, body, user, label) ==
  /\ req[r].pc = "idle"
  /\ req' = [req EXCEPT ![r] = [route |-> route, hdr |-> hdr, body |-> body, pc |-> label,
                                user |-> user,
                                nextCalls |-> IF user = Undefined THEN 0 ELSE 1,
                                status |-> 0, resp |-> Undefined, sent |-> 0]]
  /\ checkedOut' = checkedOut + 1
  /\ UNCHANGED <<loc, clientVars>>

\* A request is dispatched on an idle slot and answered within the same turn.
Answer(r, route, hdr, body, user, code, resp) ==
  /\ req[r].pc = "idle"
  /\ req' = [req EXCEPT ![r] = [route |-> route, hdr |-> hdr, body |-> body,
                                pc |-> "done", user |-> user,
                                nextCalls |-> IF user = Undefined THEN 0 ELSE 1,
                                status |-> code, resp |-> resp, sent |-> 1]]
  /\ UNCHANGED <<loc, checkedOut, clientVars>>

\* A variant whose client.release() is the last statement of the try block
\* instead of a finally: a thrown error answers 500 and keeps the connection.
RespondHoldingClient(r, code, resp) ==
  /\ req' = [req EXCEPT ![r].pc = "done", ![r].status = code, ![r].resp = resp,
                        ![r].sent = @ + 1]
  /\ loc' = [loc EXCEPT ![r] = Undefined]
  /\ checkedOut' = IF code >= 500 THEN checkedOut ELSE checkedOut - 1
  /\ UNCHANGED clientVars

\* A variant whose catch block answers although the try block has answered.
RespondAgain(r, code, resp) ==
  /\ req' = [req EXCEPT ![r].pc = "done", ![r].status = code, ![r].resp = resp,
                        ![r].sent = IF code = 201 THEN @ + 2 ELSE @ + 1]
  /\ loc' = [loc EXCEPT ![r] = Undefined]
  /\ checkedOut' = checkedOut - 1
  /\ UNCHANGED clientVars

\* res.status(code).json(resp) ending a handler that has awaited, on the way
\* out of try { ... } finally { client.release() }: the response is recorded,
\* the connection goes back to the pool and the handler's locals are dropped.
Respond(r, code, resp) ==
  /\ req' = [req EXCEPT ![r].pc = "done", ![r].status = code, ![r].resp = resp,
                        ![r].sent = @ + 1]
  /\ loc' = [loc EXCEPT ![r] = Undefined]
  /\ checkedOut' = checkedOut - 1
  /\ UNCHANGED clientVars

Goto(r, label) ==
  req' = [req EXCEPT ![r].pc = label] /\ UNCHANGED <<checkedOut, clientVars>>

\* The connection of an answered request is closed and its slot freed.
Close ==
  \E r \in Reqs :
    /\ req[r].pc = "done"
    /\ req' = [req EXCEPT ![r] = IdleReq]
    /\ UNCHANGED <<loc, checkedOut, clientVars, userVars, planVars, chatVars, parseVars>>

(***************************************************************************)
(* Credentials: e-mail addresses and passwords as character sequences.     *)
(***************************************************************************)
EmailLower == <<"a", "@", "b", ".", "c", "o">>        \* a@b.co
EmailUpper == <<"A", "@", "b", ".", "c", "o">>        \* A@b.co
EmailSpaced == <<" ", "a", "@", "b", ".", "c", "o">>  \* a@b.co after a space
EmailNoAt == <<"a", "b">>                             \* ab
EmailBlank == <<" ">>
EmailOther == <<"b", "@", "b", ".", "c", "o">>        \* b@b.co

PwGood == <<"p", "a", "s", "s", "w", "o", "r", "d">>
PwShort == <<"p", "w">>
PwSpaces == <<" ", " ", " ", " ", " ", " ", " ", " ">>

UpperToLower == [c \in {"A", "B", "T"} |-> CASE c = "A" -> "a" [] c = "B" -> "b" [] c = "T" -> "t"]

\* String.prototype.toLowerCase
ToLower(s) == [i \in 1..Len(s) |-> IF s[i] \in DOMAIN UpperToLower THEN UpperToLower[s[i]] ELSE s[i]]

\* The character class \w, over the characters the model uses.
WordChars == {"a", "b", "c", "o", "p", "w", "A", "B"}

\* [\w-.] and [\w-]
LocalChar(c) == c \in WordChars \cup {"-", "."}
LabelChar(c) == c \in WordChars \cup {"-"}

MinTld == 2
MaxTld == 4

\* /^[\w-.]+@([\w-]+\.)+[\w-]{2,4}$/.test(s)
EmailRegexTest(s) ==
  \E at \in 2..Len(s) :
    /\ s[at] = "@"
    /\ \A i \in 1..(at - 1) : LocalChar(s[i])
    /\ \E d \in (at + 2)..Len(s) :
         /\ s[d] = "."
         /\ Len(s) - d \in MinTld..MaxTld
         /\ \A i \in (d + 1)..Len(s) : LabelChar(s[i])
         /\ \A i \in (at + 1)..d : LabelChar(s[i]) \/ s[i] = "."
         /\ s[at + 1] # "."
         /\ \A i \in (at + 1)..(d - 1) : ~(s[i] = "." /\ s[i + 1] = ".")

MinPasswordLen == 8

\* bcrypt.hash and bcrypt.compare, as an opaque one-way tag.
BcryptHash(pw) == [hashOf |-> pw]
BcryptCompare(pw, h) == h = BcryptHash(pw)

\* jwt.sign({userId, email}, JWT_SECRET, {expiresIn: '1h'})
JwtSign(id, email) ==
  [w |-> "jwt", userId |-> id, email |-> email, sig |-> "secret", expired |-> FALSE]

(***************************************************************************)
(* Auth gate (authenticateToken).  A header value is a sequence of atoms:  *)
(* the space character or a space-free word (the scheme or a token).       *)
(***************************************************************************)
Space == [w |-> "space"]
Bearer == [w |-> "Bearer"]

\* The part of the header between the first and the second space, as the list
\* of its atoms; Undefined when the header holds no space.
SecondField(h) ==
  LET spaces == {i \in 1..Len(h) : h[i] = Space}
  IN  IF spaces = {} THEN Undefined
      ELSE LET s1 == CHOOSE i \in spaces : \A k \in spaces : i <= k
               later == {i \in spaces : i > s1}
               s2 == IF later = {} THEN Len(h) + 1
                     ELSE CHOOSE i \in later : \A k \in later : i <= k
           IN  Str(SubSeq(h, s1 + 1, s2 - 1))

\* authHeader && authHeader.split(' ')[1]
TokenOf(hdr) ==
  IF hdr = Undefined THEN Undefined
  ELSE IF hdr.s = <<>> THEN hdr
  ELSE SecondField(hdr.s)

\* A variant of jwt.verify that ignores the expiry (ignoreExpiration: true).
JwtVerifiesIgnoringExpiry(token) ==
  /\ Len(token.s) = 1
  /\ token.s[1].w = "jwt"
  /\ token.s[1].sig = "secret"

\* A variant that reads the payload without checking the signature (jwt.decode).
JwtVerifiesIgnoringSignature(token) ==
  /\ Len(token.s) = 1
  /\ token.s[1].w = "jwt"
  /\ ~token.s[1].expired

\* jwt.verify: the token string is one well-formed JWT, signed with the
\* server's secret and not expired.
JwtVerifies(token) ==
  /\ Len(token.s) = 1
  /\ token.s[1].w = "jwt"
  /\ token.s[1].sig = "secret"
  /\ ~token.s[1].expired

JwtDecode(token) == [userId |-> token.s[1].userId, email |-> token.s[1].email]

\* The gate's decision on a request: the status it answers with, or 0 when it
\* calls next().
GateStatus(hdr) ==
  LET token == TokenOf(hdr)
  IN  IF token = Undefined THEN 401
      ELSE IF ~JwtVerifies(token) THEN 403
      ELSE 0

\* Two users registered earlier through /register, whose tokens clients hold.
User1 == [id |-> 1, email |-> EmailLower, password_hash |-> BcryptHash(PwGood)]
User2 == [id |-> 2, email |-> EmailOther, password_hash |-> BcryptHash(PwGood)]

TokenFor(u) == JwtSign(u.id, u.email)

\* A token of user 1 whose payload was changed to user 2's id, and one that
\* was issued more than an hour ago.
TamperedToken == [TokenFor(User1) EXCEPT !.userId = User2.id, !.sig = "mismatch"]
ExpiredToken == [TokenFor(User1) EXCEPT !.expired = TRUE]

BearerHeader(tok) == Str(<<Bearer, Space, tok>>)

\* What clients send as Authorization header: nothing, an empty value, the
\* scheme alone, a token without scheme, a token after two spaces, and bearer
\* tokens that are tampered with, expired or valid.
HeaderInputs ==
  {Undefined, Str(<<>>), Str(<<Bearer>>), Str(<<TokenFor(User1)>>),
   Str(<<Bearer, Space, Space, TokenFor(User1)>>),
   BearerHeader(TamperedToken), BearerHeader(ExpiredToken), BearerHeader(TokenFor(User1))}

\* req.user after the gate: the decoded identity, or Undefined when the gate
\* answered itself.
GateUser(hdr) == IF GateStatus(hdr) = 0 THEN JwtDecode(TokenOf(hdr)) ELSE Undefined

\* authenticateToken in front of a protected route: the gate answers 401 or 403
\* itself, and next() is never called.
Rejected(r, route, hdr, body) ==
  /\ GateStatus(hdr) # 0
  /\ Answer(r, route, hdr, body, Undefined, GateStatus(hdr), Undefined)

(***************************************************************************)
(* POST /register and POST /login.                                         *)
(***************************************************************************)
MaxUsers == 2

\* What clients send as e-mail and as password.
EmailInputs == {Undefined, Str(EmailBlank), Str(EmailLower), Str(EmailUpper),
                Str(EmailSpaced), Str(EmailNoAt)}
PasswordInputs == {Undefined, Str(PwShort), Str(PwGood), Str(PwSpaces)}

\* Registrations that may still draw an id.
RegistrationsLeft ==
  MaxUsers - userSeq - Cardinality({q \in Reqs : req[q].route = "register" /\ InFlight(q)})

\* The e-mail written to users.email by the INSERT of /register.
StoredEmail(email) == Trim(email)

\* The validation of /register: the status it answers with, or 0 when it passes.
RegisterInvalid(body) ==
  IF ~IsString(body.email) \/ Trim(body.email.s) = <<>> \/ ~EmailRegexTest(body.email.s)
    THEN 400
  ELSE IF ~IsString(body.password) \/ Len(body.password.s) < MinPasswordLen
    THEN 400
  ELSE 0

RegisterStart(Emails, Passwords) ==
  \E r \in Reqs, e \in Emails, pw \in Passwords :
    LET body == [email |-> e, password |-> pw]
    IN  /\ req[r].pc = "idle"
        /\ IF RegisterInvalid(body) # 0
             THEN Answer(r, "register", Undefined, body, Undefined, 400, Undefined)
             ELSE RegistrationsLeft > 0
                  /\ Begin(r, "register", Undefined, body, Undefined, "insert")
        /\ UNCHANGED <<userVars, planVars, chatVars, parseVars>>

\* A variant without the unique index on users.email.
EmailTakenIgnored(email) == FALSE

\* The unique index on users.email rejects the row (SQLSTATE 23505).
EmailTaken(email) == \E u \in users : u.email = email

\* INSERT INTO users ... RETURNING id, email; the sequence value is drawn
\* before the unique index is checked, so a rejected insert consumes one too.
RegisterInsert ==
  \E r \in Reqs :
    /\ req[r].route = "register" /\ req[r].pc = "insert"
    /\ LET email == StoredEmail(req[r].body.email.s)
           id == userSeq + 1
       IN  /\ userSeq' = id
           /\ IF EmailTaken(email)
                THEN /\ UNCHANGED users
                     /\ Respond(r, 409, Undefined)
                ELSE /\ users' = users \cup {[id |-> id, email |-> email,
                               password_hash |-> BcryptHash(req[r].body.password.s)]}
                     /\ Respond(r, 201, [token |-> JwtSign(id, email), userId |-> id,
                                         email |-> email])
    /\ UNCHANGED <<planVars, chatVars, parseVars>>

\* The validation of /login.
LoginInvalid(body) ==
  IF \/ ~IsString(body.email) \/ Trim(body.email.s) = <<>>
     \/ ~IsString(body.password) \/ Trim(body.password.s) = <<>>
    THEN 400
  ELSE 0

LoginStart(Emails, Passwords) ==
  \E r \in Reqs, e \in Emails, pw \in Passwords :
    LET body == [email |-> e, password |-> pw]
    IN  /\ req[r].pc = "idle"
        /\ IF LoginInvalid(body) # 0
             THEN Answer(r, "login", Undefined, body, Undefined, 400, Undefined)
             ELSE Begin(r, "login", Undefined, body, Undefined, "select")
        /\ UNCHANGED <<userVars, planVars, chatVars, parseVars>>

\* SELECT id, email, password_hash FROM users WHERE email = $1, then
\* bcrypt.compare and the response.
LoginSelect ==
  \E r \in Reqs :
    /\ req[r].route = "login" /\ req[r].pc = "select"
    /\ LET rows == {u \in users : u.email = Trim(req[r].body.email.s)}
       IN  IF rows = {} THEN Respond(r, 401, Undefined)
           ELSE LET user == CHOOSE u \in rows : TRUE
                IN  IF ~BcryptCompare(req[r].body.password.s, user.password_hash)
                      THEN Respond(r, 401, Undefined)
                      ELSE Respond(r, 200, [token |-> JwtSign(user.id, user.email),
                                            userId |-> user.id, email |-> user.email])
    /\ UNCHANGED <<userVars, planVars, chatVars, parseVars>>

(***************************************************************************)
(* Plan tables.  Money and quantities are JS numbers, counted in           *)
(* thousandths; a DECIMAL(10,2) column rounds what it stores to hundredths.*)
(***************************************************************************)
Arr(items) == [t |-> "arr", items |-> items]

\* The value a DECIMAL(10,2) column keeps of a number (half away from zero).
RoundToCents(n) ==
  IF n >= 0 THEN ((n + 5) \div 10) * 10
  ELSE -((((-n) + 5) \div 10) * 10)

\* Column widths of the schema.
NameWidth == 255
UnitWidth == 50
CategoryWidth == 100

Chars(w) == [t |-> "str", s |-> w]

\* typeof x === 'number' ? x : d
NumberOr(v, d) == IF IsNumber(v) THEN v.n ELSE d

\* SQL NULL in a numeric column, and sums that skip it.
SqlNull == [t |-> "null"]

RECURSIVE SumOver(_, _)
\* The sum of f over the finite set S (f a function on S).
SumOver(S, f) ==
  IF S = {} THEN 0
  ELSE LET x == CHOOSE y \in S : TRUE IN f[x] + SumOver(S \ {x}, f)

(***************************************************************************)
(* POST /meal-plan.                                                        *)
(***************************************************************************)
\* Number.isInteger, on a number counted in thousandths.
IsInteger(n) == n % 1000 = 0

\* A variant of the validation that forgets recipes.length === 0.
MealPlanInvalidNoEmptyCheck(user, body) ==
  IF \/ user = Undefined
     \/ ~IsString(body.plan_name) \/ Trim(body.plan_name.s) = <<>>
     \/ ~IsNumber(body.servings) \/ ~IsInteger(body.servings.n) \/ body.servings.n < 1000
     \/ ~IsArray(body.recipes)
    THEN 400
  ELSE 0

\* The validation of /meal-plan: 400, or 0 when the payload passes.
MealPlanInvalid(user, body) ==
  IF \/ user = Undefined
     \/ ~IsString(body.plan_name) \/ Trim(body.plan_name.s) = <<>>
     \/ ~IsNumber(body.servings) \/ ~IsInteger(body.servings.n) \/ body.servings.n < 1000
     \/ ~IsArray(body.recipes) \/ Len(body.recipes.items) = 0
    THEN 400
  ELSE 0

MaxPlans == 1

\* Plans that may still draw an id.
PlansLeft ==
  MaxPlans - seqs.plan - Cardinality({q \in Reqs : req[q].route = "meal-plan" /\ InFlight(q)})

MealPlanStart(Headers, Bodies) ==
  \E r \in Reqs, hdr \in Headers, body \in Bodies :
    /\ req[r].pc = "idle"
    /\ \/ Rejected(r, "meal-plan", hdr, body)
       \/ /\ GateStatus(hdr) = 0
          /\ IF MealPlanInvalid(GateUser(hdr), body) # 0
               THEN Answer(r, "meal-plan", hdr, body, GateUser(hdr), 400, Undefined)
               ELSE PlansLeft > 0
                    /\ Begin(r, "meal-plan", hdr, body, GateUser(hdr), "insertPlan")
    /\ UNCHANGED <<userVars, planVars, chatVars, parseVars>>

\* INSERT INTO meal_plans (...) VALUES ($1, $2, 0, $3, 'draft') RETURNING id
MealPlanInsertPlan ==
  \E r \in Reqs :
    /\ req[r].route = "meal-plan" /\ req[r].pc = "insertPlan"
    /\ LET id == seqs.plan + 1
       IN  /\ seqs' = [seqs EXCEPT !.plan = id]
           /\ meal_plans' = meal_plans \cup
                {[id |-> id, user_id |-> req[r].user.userId,
                  plan_name |-> Trim(req[r].body.plan_name.s),
                  total_estimated_cost |-> RoundToCents(0),
                  servings |-> req[r].body.servings.n]}
           /\ loc' = [loc EXCEPT ![r] = [mealPlanId |-> id, totalEstimatedCost |-> 0,
                                         ri |-> 1, recipeId |-> 0, ii |-> 0]]
           /\ Goto(r, "recipe")
    /\ UNCHANGED <<recipes, ingredients, shopping_lists, shopping_list_items,
                   userVars, chatVars, parseVars>>

\* Array.isArray(r.ingredients) ? r.ingredients : []
IngredientsOf(rv) == IF IsArray(rv.ingredients) THEN rv.ingredients.items ELSE <<>>

\* Where the loops of /meal-plan go after recipe ri's ingredient ii.
AfterIngredient(r, ri, ii) ==
  LET rs == req[r].body.recipes.items
  IN  IF ii < Len(IngredientsOf(rs[ri])) THEN "ingredient"
      ELSE IF ri < Len(rs) THEN "recipe"
      ELSE "update"

\* typeof r.prep_time === 'number' ? r.prep_time : null
PrepTimeOf(rv) ==
  IF "prep_time" \in DOMAIN rv /\ IsNumber(rv.prep_time) THEN rv.prep_time ELSE SqlNull

\* An INT column refuses a number with a fractional part (the statement fails
\* before a row or a sequence value is drawn).
IntColumnRejects(v) == v # SqlNull /\ ~IsInteger(v.n)

\* One turn of the recipe loop up to its INSERT INTO recipes; a null recipe
\* makes r.day_of_week throw and a rejected INSERT makes client.query throw,
\* which the outer catch answers with 500.
MealPlanInsertRecipe ==
  \E r \in Reqs :
    /\ req[r].route = "meal-plan" /\ req[r].pc = "recipe"
    /\ LET rv == req[r].body.recipes.items[loc[r].ri]
       IN  IF rv = Null \/ IntColumnRejects(PrepTimeOf(rv))
             THEN /\ Respond(r, 500, Undefined)
                  /\ UNCHANGED <<recipes, seqs>>
             ELSE LET estimatedCost == NumberOr(rv.estimated_cost, 0)
                      id == seqs.recipe + 1
                      nxt == AfterIngredient(r, loc[r].ri, 0)
                  IN  /\ seqs' = [seqs EXCEPT !.recipe = id]
                      /\ recipes' = recipes \cup
                           {[id |-> id, meal_plan_id |-> loc[r].mealPlanId,
                             estimated_cost |-> RoundToCents(estimatedCost)]}
                      /\ loc' = [loc EXCEPT
                           ![r].totalEstimatedCost = @ + estimatedCost,
                           ![r].recipeId = id,
                           ![r].ii = 0,
                           ![r].ri = IF nxt = "recipe" THEN @ + 1 ELSE @]
                      /\ Goto(r, nxt)
    /\ UNCHANGED <<meal_plans, ingredients, shopping_lists, shopping_list_items,
                   userVars, chatVars, parseVars>>

\* x != null ? String(x).slice(0, w) : null
StringOrNull(v, w) == IF v \in {Undefined, Null} THEN SqlNull ELSE Chars(Slice0(v.s, w))

\* One turn of the ingredient loop: INSERT INTO ingredients.
MealPlanInsertIngredient ==
  \E r \in Reqs :
    /\ req[r].route = "meal-plan" /\ req[r].pc = "ingredient"
    /\ LET rv == req[r].body.recipes.items[loc[r].ri]
           ing == IngredientsOf(rv)[loc[r].ii + 1]
           id == seqs.ingredient + 1
           nxt == AfterIngredient(r, loc[r].ri, loc[r].ii + 1)
           named == IsString(ing.ingredient_name) /\ ing.ingredient_name.s # <<>>
       IN  /\ seqs' = [seqs EXCEPT !.ingredient = id]
           /\ ingredients' = ingredients \cup
                {[id |-> id, recipe_id |-> loc[r].recipeId,
                  ingredient_name |->
                    IF named THEN Chars(Slice0(ing.ingredient_name.s, NameWidth))
                    ELSE Chars(<<"U", "n", "k", "n", "o", "w", "n">>),
                  quantity |-> IF IsNumber(ing.quantity) THEN Num(ing.quantity.n) ELSE SqlNull,
                  unit |-> StringOrNull(ing.unit, UnitWidth),
                  category |-> StringOrNull(ing.category, CategoryWidth),
                  estimated_price |->
                    IF IsNumber(ing.estimated_price)
                      THEN Num(RoundToCents(ing.estimated_price.n)) ELSE SqlNull]}
           /\ loc' = [loc EXCEPT ![r].ii = IF nxt = "ingredient" THEN @ + 1 ELSE 0,
                                 ![r].ri = IF nxt = "recipe" THEN @ + 1 ELSE @]
           /\ Goto(r, nxt)
    /\ UNCHANGED <<meal_plans, recipes, shopping_lists, shopping_list_items,
                   userVars, chatVars, parseVars>>

\* UPDATE meal_plans SET total_estimated_cost = $1 WHERE id = $2, then the 201.
MealPlanUpdate ==
  \E r \in Reqs :
    /\ req[r].route = "meal-plan" /\ req[r].pc = "update"
    /\ meal_plans' =
         {IF p.id = loc[r].mealPlanId
            THEN [p EXCEPT !.total_estimated_cost = RoundToCents(loc[r].totalEstimatedCost)]
            ELSE p : p \in meal_plans}
    /\ Respond(r, 201, [meal_plan_id |-> loc[r].mealPlanId,
                        total_estimated_cost |-> loc[r].totalEstimatedCost,
                        recipes_count |-> Len(req[r].body.recipes.items)])
    /\ UNCHANGED <<recipes, ingredients, shopping_lists, shopping_list_items, seqs,
                   userVars, chatVars, parseVars>>

(***************************************************************************)
(* GET /shopping-list/:plan_id.                                            *)
(***************************************************************************)
\* parseInt(req.params.plan_id, 10) is modelled by its result: a number, or
\* Undefined for NaN.
ShoppingListStart(Headers, PlanIds) ==
  \E r \in Reqs, hdr \in Headers, planId \in PlanIds :
    /\ req[r].pc = "idle"
    /\ \/ Rejected(r, "shopping-list", hdr, [plan_id |-> planId])
       \/ /\ GateStatus(hdr) = 0
          /\ IF ~IsNumber(planId) \/ planId.n < 1
               THEN Answer(r, "shopping-list", hdr, [plan_id |-> planId], GateUser(hdr), 400,
                           Undefined)
               ELSE IF GateUser(hdr) = Undefined
                 THEN Answer(r, "shopping-list", hdr, [plan_id |-> planId], GateUser(hdr), 401,
                             Undefined)
                 ELSE Begin(r, "shopping-list", hdr, [plan_id |-> planId], GateUser(hdr),
                            "selectPlan")
    /\ UNCHANGED <<userVars, planVars, chatVars, parseVars>>

\* A variant of the plan lookup without the user_id condition.
PlanRowsOfAnyUser(planId, userId) == {p \in meal_plans : p.id = planId}

\* SELECT id FROM meal_plans WHERE id = $1 AND user_id = $2
PlanRows(planId, userId) == {p \in meal_plans : p.id = planId /\ p.user_id = userId}

\* The plan lookup of /shopping-list and its 404.
ShoppingListSelectPlan ==
  \E r \in Reqs :
    /\ req[r].route = "shopping-list" /\ req[r].pc = "selectPlan"
    /\ IF PlanRows(req[r].body.plan_id.n, req[r].user.userId) = {}
         THEN Respond(r, 404, Undefined)
         ELSE Goto(r, "selectList") /\ UNCHANGED loc
    /\ UNCHANGED <<userVars, planVars, chatVars, parseVars>>

\* SELECT id FROM shopping_lists WHERE meal_plan_id = $1; with several rows the
\* first one is whichever the database returns first.
ShoppingListSelectList ==
  \E r \in Reqs :
    /\ req[r].route = "shopping-list" /\ req[r].pc = "selectList"
    /\ LET rows == {l \in shopping_lists : l.meal_plan_id = req[r].body.plan_id.n}
       IN  IF rows = {}
             THEN /\ loc' = [loc EXCEPT ![r] = [shoppingListId |-> 0, agg |-> {},
                                                totalCost |-> 0]]
                  /\ Goto(r, "insertList")
             ELSE \E l \in rows :
                    /\ loc' = [loc EXCEPT ![r] = [shoppingListId |-> l.id, agg |-> {},
                                                  totalCost |-> 0]]
                    /\ Goto(r, "deleteItems")
    /\ UNCHANGED <<userVars, planVars, chatVars, parseVars>>

\* INSERT INTO shopping_lists (meal_plan_id, total_cost) VALUES ($1, 0) RETURNING id.
\* schema.sql puts no constraint on meal_plan_id, so the row is added even when
\* the plan has got a list since this request looked; on a database that also
\* ran the migration adding UNIQUE (meal_plan_id) the statement is refused
\* instead (after drawing its id), which the outer catch answers with 500.
ShoppingListInsertList ==
  \E r \in Reqs :
    /\ req[r].route = "shopping-list" /\ req[r].pc = "insertList"
    /\ LET id == seqs.list + 1
       IN  /\ seqs' = [seqs EXCEPT !.list = id]
           /\ \/ /\ shopping_lists' = shopping_lists \cup
                       {[id |-> id, meal_plan_id |-> req[r].body.plan_id.n, total_cost |-> 0]}
                 /\ loc' = [loc EXCEPT ![r].shoppingListId = id]
                 /\ Goto(r, "aggregate")
              \/ /\ \E l \in shopping_lists : l.meal_plan_id = req[r].body.plan_id.n
                 /\ UNCHANGED shopping_lists
                 /\ Respond(r, 500, Undefined)
    /\ UNCHANGED <<meal_plans, recipes, ingredients, shopping_list_items,
                   userVars, chatVars, parseVars>>

\* A variant of the regeneration that keeps the items of the earlier list.
ShoppingListKeepItems ==
  \E r \in Reqs :
    /\ req[r].route = "shopping-list" /\ req[r].pc = "deleteItems"
    /\ Goto(r, "aggregate")
    /\ UNCHANGED <<loc, shopping_list_items, meal_plans, recipes, ingredients,
                   shopping_lists, seqs, userVars, chatVars, parseVars>>

\* DELETE FROM shopping_list_items WHERE shopping_list_id = $1
ShoppingListDeleteItems ==
  \E r \in Reqs :
    /\ req[r].route = "shopping-list" /\ req[r].pc = "deleteItems"
    /\ shopping_list_items' =
         [i \in {j \in DOMAIN shopping_list_items : j.shopping_list_id # loc[r].shoppingListId}
            |-> shopping_list_items[i]]
    /\ Goto(r, "aggregate")
    /\ UNCHANGED <<loc, meal_plans, recipes, ingredients, shopping_lists, seqs,
                   userVars, chatVars, parseVars>>

\* The ingredient rows of a plan: ingredients JOIN recipes WHERE r.meal_plan_id = $1
PlanIngredients(planId) ==
  {i \in ingredients : \E rc \in recipes : rc.id = i.recipe_id /\ rc.meal_plan_id = planId}

\* COALESCE(i.unit, '')
CoalesceUnit(u) == IF u = SqlNull THEN Chars(<<>>) ELSE u

\* A variant of the query without its GROUP BY: every ingredient is its own group.
GroupKeyPerIngredient(i) ==
  [ingredient_name |-> i.ingredient_name, unit |-> CoalesceUnit(i.unit),
   category |-> i.category, id |-> i.id]

GroupKey(i) == [ingredient_name |-> i.ingredient_name, unit |-> CoalesceUnit(i.unit),
                category |-> i.category]

\* A variant of SUM that gives 0 for a group whose values are all NULL.
SqlSumNullAsZero(rows, col) ==
  LET nn == {i \in rows : i[col] # SqlNull}
  IN  Num(SumOver(nn, [i \in nn |-> i[col].n]))

\* SUM(column) over a group: NULL when every value is NULL, else the sum of the others.
SqlSum(rows, col) ==
  LET nn == {i \in rows : i[col] # SqlNull}
  IN  IF nn = {} THEN SqlNull
      ELSE Num(SumOver(nn, [i \in nn |-> i[col].n]))

\* The aggregation query: one row per group key, with the two sums.
Aggregate(planId) ==
  LET rows == PlanIngredients(planId)
  IN  {[ingredient_name |-> k.ingredient_name, unit |-> k.unit, category |-> k.category,
        quantity |-> SqlSum({i \in rows : GroupKey(i) = k}, "quantity"),
        estimated_price |-> SqlSum({i \in rows : GroupKey(i) = k}, "estimated_price")]
       : k \in {GroupKey(i) : i \in rows}}

ShoppingListAggregate ==
  \E r \in Reqs :
    /\ req[r].route = "shopping-list" /\ req[r].pc = "aggregate"
    /\ LET agg == Aggregate(req[r].body.plan_id.n)
       IN  /\ loc' = [loc EXCEPT ![r].agg = agg, ![r].totalCost = 0]
           /\ Goto(r, IF agg = {} THEN "updateTotal" ELSE "insertItem")
    /\ UNCHANGED <<userVars, planVars, chatVars, parseVars>>

\* One turn of the loop over the aggregated rows (in the order the database
\* returned them, which the query leaves open): INSERT INTO shopping_list_items.
ShoppingListInsertItem ==
  \E r \in Reqs :
    /\ req[r].route = "shopping-list" /\ req[r].pc = "insertItem"
    /\ \E row \in loc[r].agg :
         LET item == [shopping_list_id |-> loc[r].shoppingListId,
                      ingredient_name |-> row.ingredient_name,
                      quantity |-> row.quantity,
                      unit |-> IF row.unit = Chars(<<>>) THEN SqlNull ELSE row.unit,
                      category |-> row.category,
                      estimated_price |->
                        IF row.estimated_price = SqlNull THEN SqlNull
                        ELSE Num(RoundToCents(row.estimated_price.n)),
                      checked |-> FALSE]
             rest == loc[r].agg \ {row}
         IN  /\ shopping_list_items' = shopping_list_items (+) SetToBag({item})
             /\ loc' = [loc EXCEPT
                  ![r].agg = rest,
                  ![r].totalCost = IF row.estimated_price = SqlNull THEN @
                                   ELSE @ + row.estimated_price.n]
             /\ Goto(r, IF rest = {} THEN "updateTotal" ELSE "insertItem")
    /\ UNCHANGED <<meal_plans, recipes, ingredients, shopping_lists, seqs,
                   userVars, chatVars, parseVars>>

\* A variant that leaves the placeholder total of the INSERT on the list row.
ShoppingListSkipTotal ==
  \E r \in Reqs :
    /\ req[r].route = "shopping-list" /\ req[r].pc = "updateTotal"
    /\ Goto(r, "selectItems")
    /\ UNCHANGED <<loc, shopping_lists, meal_plans, recipes, ingredients,
                   shopping_list_items, seqs, userVars, chatVars, parseVars>>

\* UPDATE shopping_lists SET total_cost = $1 WHERE id = $2
ShoppingListUpdateTotal ==
  \E r \in Reqs :
    /\ req[r].route = "shopping-list" /\ req[r].pc = "updateTotal"
    /\ shopping_lists' =
         {IF l.id = loc[r].shoppingListId
            THEN [l EXCEPT !.total_cost = RoundToCents(loc[r].totalCost)]
            ELSE l : l \in shopping_lists}
    /\ Goto(r, "selectItems")
    /\ UNCHANGED <<loc, meal_plans, recipes, ingredients, shopping_list_items, seqs,
                   userVars, chatVars, parseVars>>

\* The letters of the model's names and categories, in collation order.
Letters == <<"U", "a", "b", "c", "d", "e", "f", "g", "h", "i", "j", "k", "l", "m", "n",
             "o", "p", "q", "r", "s", "t", "u", "v", "w", "x", "y", "z">>

Rank(c) == CHOOSE i \in 1..Len(Letters) : Letters[i] = c

RECURSIVE TextLess(_, _)
\* a < b as the database compares two VARCHAR values.
TextLess(a, b) ==
  IF b = <<>> THEN FALSE
  ELSE IF a = <<>> THEN TRUE
  ELSE IF Head(a) = Head(b) THEN TextLess(Tail(a), Tail(b))
  ELSE Rank(Head(a)) < Rank(Head(b))

\* A variant of the query without its ORDER BY: any row may come first.
ItemsInAnyOrder(a, b) == TRUE

\* ORDER BY category NULLS LAST, ingredient_name: row a may come before row b.
ItemsInOrder(a, b) ==
  IF a.category = b.category
    THEN ~TextLess(b.ingredient_name.s, a.ingredient_name.s)
  ELSE IF a.category = SqlNull THEN FALSE
  ELSE IF b.category = SqlNull THEN TRUE
  ELSE TextLess(a.category.s, b.category.s)

RECURSIVE OrderedRows(_)
\* The sequences the database may return for the rows of bag B under the
\* ORDER BY (rows that tie come in any order).
OrderedRows(B) ==
  IF BagToSet(B) = {} THEN {<<>>}
  ELSE UNION {{<<m>> \o q : q \in OrderedRows(B (-) SetToBag({m}))}
              : m \in {x \in BagToSet(B) : \A y \in BagToSet(B) : ItemsInOrder(x, y)}}

\* The columns of an item row that the response carries.
ItemFields(x) ==
  [ingredient_name |-> x.ingredient_name, quantity |-> x.quantity, unit |-> x.unit,
   category |-> x.category, estimated_price |-> x.estimated_price, checked |-> x.checked]

\* The rows of shopping_list_items of one list, as a bag.
ListItems(listId) ==
  [i \in {j \in DOMAIN shopping_list_items : j.shopping_list_id = listId}
     |-> shopping_list_items[i]]

\* SELECT ... FROM shopping_list_items WHERE shopping_list_id = $1 ORDER BY
\* category NULLS LAST, ingredient_name, then the 200.
ShoppingListSelectItems ==
  \E r \in Reqs :
    /\ req[r].route = "shopping-list" /\ req[r].pc = "selectItems"
    /\ \E rows \in OrderedRows(ListItems(loc[r].shoppingListId)) :
         Respond(r, 200,
           [shopping_list_id |-> loc[r].shoppingListId,
            plan_id |-> req[r].body.plan_id.n,
            items |-> [i \in 1..Len(rows) |-> ItemFields(rows[i])],
            total_cost |-> loc[r].totalCost])
    /\ UNCHANGED <<userVars, planVars, chatVars, parseVars>>

(***************************************************************************)
(* POST /chat.                                                             *)
(***************************************************************************)
ConversationIdWidth == 100

MaxChats == 1

\* A variant of the validation without the API-key check.
ChatInvalidNoKeyCheck(user, body) ==
  IF \/ ~IsString(body.user_message) \/ Trim(body.user_message.s) = <<>>
     \/ ~IsString(body.conversation_id) \/ Trim(body.conversation_id.s) = <<>>
     \/ user = Undefined
    THEN 400
  ELSE 0

\* The validation of /chat and the API-key check: 400, 503, or 0.
ChatInvalid(user, body) ==
  IF \/ ~IsString(body.user_message) \/ Trim(body.user_message.s) = <<>>
     \/ ~IsString(body.conversation_id) \/ Trim(body.conversation_id.s) = <<>>
     \/ user = Undefined
    THEN 400
  ELSE IF ~apiKeySet THEN 503
  ELSE 0

\* Chat requests that may still reach the model.
ChatsLeft ==
  MaxChats - modelCalls
    - Cardinality({q \in Reqs : req[q].route = "chat" /\ req[q].pc \in {"insertUser", "history", "callModel"}})

ChatStart(Headers, Bodies) ==
  \E r \in Reqs, hdr \in Headers, body \in Bodies :
    /\ req[r].pc = "idle"
    /\ \/ Rejected(r, "chat", hdr, body)
       \/ /\ GateStatus(hdr) = 0
          /\ IF ChatInvalid(GateUser(hdr), body) # 0
               THEN Answer(r, "chat", hdr, body, GateUser(hdr),
                           ChatInvalid(GateUser(hdr), body), Undefined)
               ELSE ChatsLeft > 0
                    /\ Begin(r, "chat", hdr, body, GateUser(hdr), "insertUser")
    /\ UNCHANGED <<userVars, planVars, chatVars, parseVars>>

ChatRow(r, sender, txt) ==
  [user_id |-> req[r].user.userId, sender |-> sender, message_text |-> txt,
   conversation_id |-> Slice0(Trim(req[r].body.conversation_id.s), ConversationIdWidth)]

\* INSERT INTO chat_messages (the user's turn)
ChatInsertUser ==
  \E r \in Reqs :
    /\ req[r].route = "chat" /\ req[r].pc = "insertUser"
    /\ chat_messages' = Append(chat_messages,
                               ChatRow(r, "user", Trim(req[r].body.user_message.s)))
    /\ Goto(r, "history")
    /\ UNCHANGED <<loc, apiKeySet, modelCalls, userVars, planVars, parseVars>>

RECURSIVE SelectHistoryOfConversation(_, _, _)
\* A variant of the query without its user_id = $2: the rows of one
\* conversation id, whoever wrote them.
SelectHistoryOfConversation(rows, cid, uid) ==
  IF rows = <<>> THEN <<>>
  ELSE LET h == Head(rows)
           rest == SelectHistoryOfConversation(Tail(rows), cid, uid)
       IN  IF h.conversation_id = cid
             THEN <<[role |-> IF h.sender = "user" THEN "user" ELSE "assistant",
                     content |-> h.message_text]>> \o rest
             ELSE rest

RECURSIVE SelectHistory(_, _, _)
\* The rows of one conversation of one user, as {role, content}, oldest first.
SelectHistory(rows, cid, uid) ==
  IF rows = <<>> THEN <<>>
  ELSE LET h == Head(rows)
           rest == SelectHistory(Tail(rows), cid, uid)
       IN  IF h.conversation_id = cid /\ h.user_id = uid
             THEN <<[role |-> IF h.sender = "user" THEN "user" ELSE "assistant",
                     content |-> h.message_text]>> \o rest
             ELSE rest

\* SELECT sender, message_text FROM chat_messages WHERE conversation_id = $1
\* AND user_id = $2 ORDER BY timestamp ASC
ChatSelectHistory ==
  \E r \in Reqs :
    /\ req[r].route = "chat" /\ req[r].pc = "history"
    /\ loc' = [loc EXCEPT ![r] =
                 [messages |-> SelectHistory(chat_messages,
                                             Trim(req[r].body.conversation_id.s),
                                             req[r].user.userId),
                  assistantText |-> <<>>]]
    /\ Goto(r, "callModel")
    /\ UNCHANGED <<userVars, planVars, chatVars, parseVars>>

\* What the model may answer: plain prose, or prose around a meal plan.
ModelTexts == {<<"s">>, <<"s", "{", "R", "[", "]", "}">>}

\* A variant of the call that tries again after a non-success answer.
ChatCallModelRetrying ==
  \E r \in Reqs :
    /\ req[r].route = "chat" /\ req[r].pc = "callModel"
    /\ modelCalls' = modelCalls + 1
    /\ \/ /\ loc[r].messages # <<>>
          /\ \E txt \in ModelTexts :
               /\ loc' = [loc EXCEPT ![r].assistantText = txt]
               /\ Goto(r, "insertAssistant")
       \/ /\ modelCalls < MaxChats
          /\ UNCHANGED <<req, loc, checkedOut, clientVars>>
       \/ /\ modelCalls >= MaxChats
          /\ Respond(r, 500, Undefined)
    /\ UNCHANGED <<chat_messages, apiKeySet, userVars, planVars, parseVars>>

\* callClaudeAPI: one fetch; a non-success answer (always so for an empty
\* message list) throws, which the outer catch answers with 500.
ChatCallModel ==
  \E r \in Reqs :
    /\ req[r].route = "chat" /\ req[r].pc = "callModel"
    /\ modelCalls' = modelCalls + 1
    /\ \/ /\ loc[r].messages # <<>>
          /\ \E txt \in ModelTexts :
               /\ loc' = [loc EXCEPT ![r].assistantText = txt]
               /\ Goto(r, "insertAssistant")
       \/ Respond(r, 500, Undefined)
    /\ UNCHANGED <<chat_messages, apiKeySet, userVars, planVars, parseVars>>

\* The first occurrence of the span sub removed from s.
RemoveSpan(s, sub) ==
  LET starts == {i \in 1..(Len(s) - Len(sub) + 1) : SubSeq(s, i, i + Len(sub) - 1) = sub}
  IN  IF starts = {} THEN s
      ELSE LET i == CHOOSE k \in starts : \A m \in starts : k <= m
           IN  SubSeq(s, 1, i - 1) \o SubSeq(s, i + Len(sub), Len(s))

\* messageWithoutJsonBlock, on token sequences (code fences are not tokens).
messageWithoutJsonBlock(s) ==
  LET jsonMatch == BraceMatch(s)
      out == IF jsonMatch = Null THEN s ELSE RemoveSpan(s, jsonMatch.s)
  IN  IF out = <<>> THEN s ELSE out

\* INSERT INTO chat_messages (the assistant's turn), parseRecipeJSON, the 200.
ChatInsertAssistant ==
  \E r \in Reqs :
    /\ req[r].route = "chat" /\ req[r].pc = "insertAssistant"
    /\ chat_messages' = Append(chat_messages, ChatRow(r, "assistant", loc[r].assistantText))
    /\ LET mealPlan == parseRecipeJSON(loc[r].assistantText)
       IN  Respond(r, 200,
             [message |-> IF mealPlan # Null
                            THEN messageWithoutJsonBlock(loc[r].assistantText)
                            ELSE loc[r].assistantText,
              meal_plan |-> mealPlan])
    /\ UNCHANGED <<apiKeySet, modelCalls, userVars, planVars, parseVars>>

(***************************************************************************)
(* POST /affiliate-link.                                                   *)
(***************************************************************************)
Tesco == <<"t", "e", "s", "c", "o">>
Sainsburys == <<"s", "a", "i", "n", "s", "b", "u", "r", "y", "s">>
\* A variant of the list with a single retailer.
RetailersTescoOnly == {Tesco}

RETAILERS == {Tesco, Sainsburys}

\* buildRetailerSearchUrl: the retailer's search page with the encoded query.
buildRetailerSearchUrl(retailer, searchQuery) ==
  [site |-> retailer, query |-> Trim(searchQuery)]

AffiliateLink(Headers, Bodies) ==
  \E r \in Reqs, hdr \in Headers, b \in Bodies :
    /\ req[r].pc = "idle"
    /\ \/ Rejected(r, "affiliate-link", hdr, b)
       \/ /\ GateStatus(hdr) = 0
          /\ IF \/ ~IsString(b.retailer) \/ ToLower(b.retailer.s) \notin RETAILERS
                \/ ~IsString(b.search_query) \/ Trim(b.search_query.s) = <<>>
               THEN Answer(r, "affiliate-link", hdr, b, GateUser(hdr), 400, Undefined)
               ELSE Answer(r, "affiliate-link", hdr, b, GateUser(hdr), 200,
                      [url |-> buildRetailerSearchUrl(ToLower(b.retailer.s), b.search_query.s)])
    /\ UNCHANGED <<userVars, planVars, chatVars, parseVars>>

(***************************************************************************)
(* The frontend: the state of the App component and its handlers.  A       *)
(* handler runs up to its fetch in one step; the rest of it runs when the  *)
(* response arrives.                                                       *)
(***************************************************************************)
MaxMessages == 3

\* useState initial values; the token comes from localStorage.
AppInit(tok) ==
  [token |-> tok, messages |-> <<>>, input |-> <<>>, chatLoading |-> FALSE,
   mealPlan |-> Null, savedPlanId |-> Null, planLoading |-> FALSE,
   shoppingList |-> Null, shopLoading |-> FALSE]

NoFetches == [chat |-> 0, save |-> 0, list |-> 0, shop |-> 0]

\* What the user may have typed into the textarea.
InputTexts == {<<>>, <<" ">>, <<" ", "h", "i">>}

\* handleAuth, once the server has answered with a token.
handleAuth ==
  /\ app.token = <<>>
  /\ app' = [app EXCEPT !.token = <<"t">>]
  /\ UNCHANGED <<fetches, serverVars>>

handleLogout ==
  /\ app.token # <<>>
  /\ app' = [app EXCEPT !.token = <<>>, !.messages = <<>>, !.mealPlan = Null,
                         !.savedPlanId = Null, !.shoppingList = Null]
  /\ UNCHANGED <<fetches, serverVars>>

\* onChange of the textarea, which is disabled while loading.
setInput ==
  /\ app.token # <<>> /\ ~app.chatLoading
  /\ \E v \in InputTexts : v # app.input /\ app' = [app EXCEPT !.input = v]
  /\ UNCHANGED <<fetches, serverVars>>

\* sendMessage up to its fetch: nothing happens when the trimmed input is
\* empty or chatLoading is set.
sendMessage ==
  /\ app.token # <<>>
  /\ Trim(app.input) # <<>> /\ ~app.chatLoading
  /\ Len(app.messages) + 2 <= MaxMessages
  /\ app' = [app EXCEPT !.messages = Append(@, [role |-> "user", content |-> Trim(app.input)]),
                         !.input = <<>>, !.chatLoading = TRUE]
  /\ fetches' = [fetches EXCEPT !.chat = @ + 1]
  /\ UNCHANGED serverVars

\* The rest of sendMessage: the answer with or without a meal plan, or the
\* catch block, and the finally block.
chatResponse ==
  /\ fetches.chat > 0
  /\ fetches' = [fetches EXCEPT !.chat = @ - 1]
  /\ \/ \E plan \in {Null, Str(<<"p">>)} :
          app' = [app EXCEPT
                    !.messages = Append(@, [role |-> "assistant", content |-> <<"s">>]),
                    !.mealPlan = IF plan # Null THEN plan ELSE @,
                    !.chatLoading = FALSE]
     \/ app' = [app EXCEPT
                  !.messages = Append(@, [role |-> "assistant", content |-> <<"E">>]),
                  !.chatLoading = FALSE]
  /\ UNCHANGED serverVars

\* savePlan up to its fetch.
savePlan ==
  /\ app.token # <<>>
  /\ app.mealPlan # Null /\ ~app.planLoading
  /\ app' = [app EXCEPT !.planLoading = TRUE]
  /\ fetches' = [fetches EXCEPT !.save = @ + 1]
  /\ UNCHANGED serverVars

\* The rest of savePlan: setSavedPlanId(data.meal_plan_id), or the catch block.
saveResponse ==
  /\ fetches.save > 0
  /\ fetches' = [fetches EXCEPT !.save = @ - 1]
  /\ \/ app' = [app EXCEPT !.savedPlanId = Num(1000), !.planLoading = FALSE]
     \/ app' = [app EXCEPT !.planLoading = FALSE]
  /\ UNCHANGED serverVars

\* generateShoppingList up to its fetch.
generateShoppingList ==
  /\ app.token # <<>>
  /\ app.savedPlanId # Null /\ ~app.shopLoading
  /\ app' = [app EXCEPT !.shopLoading = TRUE]
  /\ fetches' = [fetches EXCEPT !.list = @ + 1]
  /\ UNCHANGED serverVars

\* The rest of generateShoppingList: setShoppingList(data), or the catch block.
shoppingListResponse ==
  /\ fetches.list > 0
  /\ fetches' = [fetches EXCEPT !.list = @ - 1]
  /\ \/ app' = [app EXCEPT !.shoppingList = Str(<<"l">>), !.shopLoading = FALSE]
     \/ app' = [app EXCEPT !.shopLoading = FALSE]
  /\ UNCHANGED serverVars

\* shopNow up to its fetch.
shopNow ==
  /\ app.token # <<>>
  /\ app.shoppingList # Null /\ ~app.shopLoading
  /\ app' = [app EXCEPT !.shopLoading = TRUE]
  /\ fetches' = [fetches EXCEPT !.shop = @ + 1]
  /\ UNCHANGED serverVars

\* The rest of shopNow: window.open or alert, and the finally block.
shopResponse ==
  /\ fetches.shop > 0
  /\ fetches' = [fetches EXCEPT !.shop = @ - 1]
  /\ app' = [app EXCEPT !.shopLoading = FALSE]
  /\ UNCHANGED serverVars

(***************************************************************************)
(* Initial states and specifications.                                      *)
(***************************************************************************)
ServerInit ==
  /\ meal_plans = {} /\ recipes = {} /\ ingredients = {}
  /\ shopping_lists = {} /\ shopping_list_items = EmptyBag
  /\ seqs = [plan |-> 0, recipe |-> 0, ingredient |-> 0, list |-> 0]
  /\ chat_messages = <<>>
  /\ modelCalls = 0
  /\ req = [r \in Reqs |-> IdleReq]
  /\ loc = [r \in Reqs |-> Undefined]
  /\ checkedOut = 0
  /\ app = AppInit(<<>>) /\ fetches = NoFetches

NoText == text = <<>> /\ parsed = NotRun

(* ---- Plan Extractor ---- *)
InitParse ==
  /\ ParseInit
  /\ ServerInit /\ apiKeySet = TRUE /\ users = {} /\ userSeq = 0

NextParse ==
  ExtractPlan /\ UNCHANGED <<userVars, planVars, chatVars, req, loc, checkedOut, clientVars>>

SpecParse == InitParse /\ [][NextParse]_vars

(* ---- /register and /login ---- *)
InitAuth ==
  /\ ServerInit /\ NoText /\ apiKeySet = TRUE
  /\ users = {} /\ userSeq = 0

\* Concurrent requests with two addresses that differ in letter case only.
NextAuth ==
  \/ RegisterStart({Str(EmailLower), Str(EmailUpper)}, {Str(PwGood), Str(PwShort)})
  \/ RegisterInsert
  \/ LoginStart({Str(EmailLower), Str(EmailUpper)}, {Str(PwGood), Str(PwShort)})
  \/ LoginSelect
  \/ Close

SpecAuth == InitAuth /\ [][NextAuth]_vars

\* No request is being served.
Quiet == \A q \in Reqs : req[q].pc = "idle"

\* One request at a time, with every kind of e-mail and password.
NextCred ==
  \/ Quiet /\ RegisterStart(EmailInputs, PasswordInputs)
  \/ RegisterInsert
  \/ Quiet /\ LoginStart(EmailInputs, PasswordInputs)
  \/ LoginSelect
  \/ Close

SpecCred == InitAuth /\ [][NextCred]_vars

(* ---- request payloads of the protected routes ---- *)
Egg == <<"e", "g", "g">>
Milk == <<"m", "i", "l", "k">>
Pcs == <<"p", "c", "s">>
Dairy == <<"d", "a", "i", "r", "y">>

\* {"ingredient_name":"egg","quantity":2,"unit":"pcs","category":"dairy","estimated_price":1.00}
Egg2 == [ingredient_name |-> Str(Egg), quantity |-> Num(2000), unit |-> Str(Pcs),
         category |-> Str(Dairy), estimated_price |-> Num(1000)]
\* {"ingredient_name":"egg","quantity":3,"unit":"pcs","category":"dairy","estimated_price":1.50}
Egg3 == [ingredient_name |-> Str(Egg), quantity |-> Num(3000), unit |-> Str(Pcs),
         category |-> Str(Dairy), estimated_price |-> Num(1500)]
\* {"ingredient_name":"milk"}
MilkBare == [ingredient_name |-> Str(Milk), quantity |-> Undefined, unit |-> Undefined,
             category |-> Undefined, estimated_price |-> Undefined]

Recipe(cost, ings) == [t |-> "obj", estimated_cost |-> cost, ingredients |-> ings]

\* Recipes as clients submit them: null, one without cost and ingredients, one
\* costing 0.005 with an ingredient, one costing 2.50 with two ingredients.
\* {"prep_time":1.5}: a recipe whose prep_time the INT column refuses.
RecipeBadPrep == [t |-> "obj", estimated_cost |-> Undefined, ingredients |-> Undefined,
                  prep_time |-> Num(1500)]

RecipeInputs ==
  {Null,
   Recipe(Undefined, Undefined),
   Recipe(Num(5), Arr(<<Egg2>>)),
   Recipe(Num(2500), Arr(<<Egg3, MilkBare>>))}

MaxRecipes == 2

RecipeLists == UNION {[1..n -> RecipeInputs] : n \in 1..MaxRecipes}

PlanName == <<"p", "l", "a", "n">>

\* /meal-plan payloads: the valid ones, and those with one field wrong.
MealPlanBodies ==
  {[plan_name |-> Str(PlanName), servings |-> Num(2000), recipes |-> Arr(q)] : q \in RecipeLists}
  \cup {[plan_name |-> n, servings |-> Num(2000), recipes |-> Arr(<<Recipe(Undefined, Undefined)>>)]
        : n \in {Undefined, Str(<<>>), Str(<<" ">>)}}
  \cup {[plan_name |-> Str(PlanName), servings |-> v, recipes |-> Arr(<<Recipe(Undefined, Undefined)>>)]
        : v \in {Undefined, Str(<<"2">>), Num(0), Num(-1000), Num(1500)}}
  \cup {[plan_name |-> Str(PlanName), servings |-> Num(2000), recipes |-> q]
        : q \in {Undefined, Arr(<<>>)}}

PlanIdInputs == {Undefined, Num(0)} \cup {Num(n) : n \in 1..MaxPlans}

\* The payloads with a wrong field, one plan of two recipes, and one plan
\* whose second recipe the database refuses.
SmallMealPlanBodies ==
  (MealPlanBodies \ {[plan_name |-> Str(PlanName), servings |-> Num(2000), recipes |-> Arr(q)]
                       : q \in RecipeLists})
  \cup {[plan_name |-> Str(PlanName), servings |-> Num(2000),
         recipes |-> Arr(<<Recipe(Num(5), Arr(<<Egg2>>)),
                           Recipe(Num(2500), Arr(<<Egg3, MilkBare>>))>>)],
        [plan_name |-> Str(PlanName), servings |-> Num(2000),
         recipes |-> Arr(<<Recipe(Num(5), Arr(<<Egg2>>)), RecipeBadPrep>>)]}

Hi == <<"h", "i">>
Conv == <<"c", "1">>

ChatBodies ==
  {[user_message |-> m, conversation_id |-> c] :
     m \in {Undefined, Str(<<" ">>), Str(Hi)}, c \in {Undefined, Str(<<" ">>), Str(Conv)}}

AffiliateBodies ==
  {[retailer |-> rt, search_query |-> q] :
     rt \in {Undefined, Str(Tesco), Str(<<"T", "e", "s", "c", "o">>), Str(Sainsburys), Str(Egg)},
     q \in {Undefined, Str(<<" ">>), Str(Egg)}}

(* ---- the protected routes behind the gate, one request at a time ---- *)
InitGate ==
  /\ ServerInit /\ NoText /\ apiKeySet \in BOOLEAN
  /\ users = {User1, User2} /\ userSeq = 2

\* The Authorization header of user 2, who owns no plan.
OtherHeader == {BearerHeader(TokenFor(User2))}

NextGate ==
  \/ Quiet /\ MealPlanStart(HeaderInputs, SmallMealPlanBodies)
  \/ MealPlanInsertPlan
  \/ MealPlanInsertRecipe
  \/ MealPlanInsertIngredient
  \/ MealPlanUpdate
  \/ Quiet /\ ShoppingListStart(HeaderInputs \cup OtherHeader, PlanIdInputs)
  \/ ShoppingListSelectPlan
  \/ ShoppingListSelectList
  \/ ShoppingListInsertList
  \/ ShoppingListDeleteItems
  \/ ShoppingListAggregate
  \/ ShoppingListInsertItem
  \/ ShoppingListUpdateTotal
  \/ ShoppingListSelectItems
  \/ Quiet /\ ChatStart(HeaderInputs, ChatBodies)
  \/ ChatInsertUser
  \/ ChatSelectHistory
  \/ ChatCallModel
  \/ ChatInsertAssistant
  \/ Quiet /\ AffiliateLink(HeaderInputs, AffiliateBodies)
  \/ Close

SpecGate == InitGate /\ [][NextGate]_vars

(* ---- /meal-plan and /shopping-list, concurrently ---- *)
InitPlan ==
  /\ ServerInit /\ NoText /\ apiKeySet = TRUE
  /\ users = {User1, User2} /\ userSeq = 2

OwnerHeader == {BearerHeader(TokenFor(User1))}

NextPlan ==
  \/ MealPlanStart(OwnerHeader, MealPlanBodies)
  \/ MealPlanInsertPlan
  \/ MealPlanInsertRecipe
  \/ MealPlanInsertIngredient
  \/ MealPlanUpdate
  \/ ShoppingListStart(OwnerHeader, PlanIdInputs)
  \/ ShoppingListSelectPlan
  \/ ShoppingListSelectList
  \/ ShoppingListInsertList
  \/ ShoppingListDeleteItems
  \/ ShoppingListAggregate
  \/ ShoppingListInsertItem
  \/ ShoppingListUpdateTotal
  \/ ShoppingListSelectItems
  \/ Close

SpecPlan == InitPlan /\ [][NextPlan]_vars

(* ---- /meal-plan once, then /shopping-list again and again, one request ---- *)
(* ---- at a time; answered requests stay until their connection closes   ---- *)
\* {"ingredient_name":"milk","quantity":1,"category":"dairy","estimated_price":0.80}
MilkDairy == [ingredient_name |-> Str(Milk), quantity |-> Num(1000), unit |-> Undefined,
              category |-> Str(Dairy), estimated_price |-> Num(800)]
\* {"ingredient_name":"milk","unit":"","category":"dairy"}
MilkEmptyUnit == [ingredient_name |-> Str(Milk), quantity |-> Undefined, unit |-> Str(<<>>),
                  category |-> Str(Dairy), estimated_price |-> Undefined]

\* A plan of two recipes whose ingredients fall into three groups: egg/pcs/dairy
\* twice, milk/dairy with a null and with an empty unit, milk without category.
ListPlanBodies ==
  {[plan_name |-> Str(PlanName), servings |-> Num(2000),
    recipes |-> Arr(<<Recipe(Num(2500), Arr(<<MilkBare, Egg2, MilkDairy>>)),
                      Recipe(Num(2500), Arr(<<Egg3, MilkEmptyUnit>>))>>)]}

\* No request is between its first await and its response.
Settled == \A q \in Reqs : ~InFlight(q)

NextList ==
  \/ Settled /\ MealPlanStart(OwnerHeader, ListPlanBodies)
  \/ MealPlanInsertPlan
  \/ MealPlanInsertRecipe
  \/ MealPlanInsertIngredient
  \/ MealPlanUpdate
  \/ Settled /\ ShoppingListStart(OwnerHeader, PlanIdInputs)
  \/ ShoppingListSelectPlan
  \/ ShoppingListSelectList
  \/ ShoppingListInsertList
  \/ ShoppingListDeleteItems
  \/ ShoppingListAggregate
  \/ ShoppingListInsertItem
  \/ ShoppingListUpdateTotal
  \/ ShoppingListSelectItems
  \/ Close

SpecList == InitPlan /\ [][NextList]_vars

(* ---- /register, /login, /chat and /shopping-list, concurrently ---- *)
InitServe ==
  /\ ServerInit /\ NoText /\ apiKeySet = TRUE
  /\ users = {User1} /\ userSeq = 1

\* No header, and the bearer token of user 1.
ServeHeaders == {Undefined} \cup OwnerHeader

ServeChatBodies ==
  {[user_message |-> m, conversation_id |-> Str(Conv)] : m \in {Str(<<" ">>), Str(Hi)}}

\* Plan ids that no plan has: user 1 has stored no plan.
UnknownPlanIds == {Num(0), Num(1)}

NextServe ==
  \/ RegisterStart({Str(EmailLower), Str(EmailOther), Str(EmailNoAt)}, {Str(PwGood)})
  \/ RegisterInsert
  \/ LoginStart({Str(EmailLower)}, {Str(PwGood), Str(PwShort), Str(<<>>)})
  \/ LoginSelect
  \/ ShoppingListStart(OwnerHeader, UnknownPlanIds)
  \/ ShoppingListSelectPlan
  \/ ChatStart(ServeHeaders, ServeChatBodies)
  \/ ChatInsertUser
  \/ ChatSelectHistory
  \/ ChatCallModel
  \/ ChatInsertAssistant
  \/ Close

SpecServe == InitServe /\ [][NextServe]_vars

(* ---- /meal-plan once, then overlapping /shopping-list requests ---- *)
\* A plan of one recipe with a priced ingredient and one without price.
RacePlanBodies ==
  {[plan_name |-> Str(PlanName), servings |-> Num(2000),
    recipes |-> Arr(<<Recipe(Num(2500), Arr(<<Egg2, MilkBare>>))>>)]}

\* The plan is stored and at most one request is being served: the next
\* request overlaps with at most one other.
PairOverlap ==
  /\ \A q \in Reqs : req[q].route # "meal-plan"
  /\ \A p, q \in Reqs : (InFlight(p) /\ InFlight(q)) => p = q

NextRace ==
  \/ (Settled /\ meal_plans = {}) /\ MealPlanStart(OwnerHeader, RacePlanBodies)
  \/ MealPlanInsertPlan
  \/ MealPlanInsertRecipe
  \/ MealPlanInsertIngredient
  \/ MealPlanUpdate
  \/ PairOverlap /\ ShoppingListStart(OwnerHeader, {Num(1)})
  \/ ShoppingListSelectPlan
  \/ ShoppingListSelectList
  \/ ShoppingListInsertList
  \/ ShoppingListDeleteItems
  \/ ShoppingListAggregate
  \/ ShoppingListInsertItem
  \/ ShoppingListUpdateTotal
  \/ ShoppingListSelectItems
  \/ Close

SpecRace == InitPlan /\ [][NextRace]_vars

(* ---- /chat by two users who have chatted before ---- *)
\* config.MESSAGE_QUOTA_PER_USER
MESSAGE_QUOTA_PER_USER == 10

Reply == <<"s">>

\* A conversation id of one character more than the column is wide.
LongConv == [i \in 1..(ConversationIdWidth + 1) |-> "c"]

RECURSIVE Exchanges(_, _)
\* The rows of n earlier exchanges of user u in conversation Conv: the user's
\* turn and the assistant's turn, n times.
Exchanges(u, n) ==
  IF n = 0 THEN <<>>
  ELSE <<[user_id |-> u.id, sender |-> "user", message_text |-> Hi,
          conversation_id |-> Conv],
         [user_id |-> u.id, sender |-> "assistant", message_text |-> Reply,
          conversation_id |-> Conv]>> \o Exchanges(u, n - 1)

\* User 1 has sent ten messages and user 2 one, all under the same
\* conversation id; the server has been restarted since.
InitChat ==
  /\ NoText /\ apiKeySet = TRUE
  /\ users = {User1, User2} /\ userSeq = 2
  /\ meal_plans = {} /\ recipes = {} /\ ingredients = {}
  /\ shopping_lists = {} /\ shopping_list_items = EmptyBag
  /\ seqs = [plan |-> 0, recipe |-> 0, ingredient |-> 0, list |-> 0]
  /\ chat_messages = Exchanges(User1, MESSAGE_QUOTA_PER_USER) \o Exchanges(User2, 1)
  /\ modelCalls = 0
  /\ req = [r \in Reqs |-> IdleReq]
  /\ loc = [r \in Reqs |-> Undefined]
  /\ checkedOut = 0
  /\ app = AppInit(<<>>) /\ fetches = NoFetches

ChatHeaders == {Undefined} \cup OwnerHeader \cup OtherHeader

ChatBodiesOfTwo ==
  {[user_message |-> m, conversation_id |-> c] :
     m \in {Str(<<" ">>), Str(<<" ">> \o Hi)},
     c \in {Str(<<" ">> \o Conv), Str(LongConv)}}

NextChat ==
  \/ ChatStart(ChatHeaders, ChatBodiesOfTwo)
  \/ ChatInsertUser
  \/ ChatSelectHistory
  \/ ChatCallModel
  \/ ChatInsertAssistant
  \/ Close

SpecChat == InitChat /\ [][NextChat]_vars

(* ---- the frontend alone ---- *)
InitApp ==
  /\ NoText /\ apiKeySet = TRUE
  /\ users = {User1, User2} /\ userSeq = 2
  /\ meal_plans = {} /\ recipes = {} /\ ingredients = {}
  /\ shopping_lists = {} /\ shopping_list_items = EmptyBag
  /\ seqs = [plan |-> 0, recipe |-> 0, ingredient |-> 0, list |-> 0]
  /\ chat_messages = <<>> /\ modelCalls = 0
  /\ req = [r \in Reqs |-> IdleReq]
  /\ loc = [r \in Reqs |-> Undefined]
  /\ checkedOut = 0
  /\ \E tok \in {<<>>, <<"t">>} : app = AppInit(tok)
  /\ fetches = NoFetches

NextApp ==
  \/ handleAuth
  \/ handleLogout
  \/ setInput
  \/ sendMessage
  \/ chatResponse
  \/ savePlan
  \/ saveResponse
  \/ generateShoppingList
  \/ shoppingListResponse
  \/ shopNow
  \/ shopResponse

SpecApp == InitApp /\ [][NextApp]_vars

(***************************************************************************)
(* Properties.                                                             *)
(***************************************************************************)
\* The routes registered behind authenticateToken.
ProtectedRoutes == {"chat", "meal-plan", "shopping-list", "affiliate-link"}

\* The database tables and the count of model calls.
Effects == <<users, userSeq, meal_plans, recipes, ingredients, shopping_lists,
             shopping_list_items, seqs, chat_messages, modelCalls>>

\* A bearer token that carries the server's signature and has not expired.
SignedAndFresh(tok) ==
  /\ Len(tok.s) = 1
  /\ tok.s[1].w = "jwt"
  /\ tok.s[1].sig = "secret"
  /\ tok.s[1].expired = FALSE

\* C1: on every protected route the gate answers 401 when the Authorization
\* header carries no bearer token and 403 when the token it carries does not
\* verify (bad signature or expired), in both cases without calling the
\* handler; otherwise it calls the handler exactly once with the identity
\* decoded from the token attached to the request.
C1_AuthGate ==
  \A r \in Reqs :
    req[r].route \in ProtectedRoutes =>
      LET q == req[r]
          tok == TokenOf(q.hdr)
      IN  /\ q.nextCalls \in {0, 1}
          /\ tok = Undefined =>
               q.status = 401 /\ q.nextCalls = 0 /\ q.pc = "done" /\ q.user = Undefined
          /\ (tok # Undefined /\ ~SignedAndFresh(tok)) =>
               q.status = 403 /\ q.nextCalls = 0 /\ q.pc = "done" /\ q.user = Undefined
          /\ (tok # Undefined /\ SignedAndFresh(tok)) =>
               /\ q.nextCalls = 1
               /\ q.user = [userId |-> tok.s[1].userId, email |-> tok.s[1].email]
               /\ q.status \notin {401, 403}
          /\ q.hdr \in {Undefined, Str(<<Bearer>>)} => q.status = 401
          /\ q.hdr \in {BearerHeader(TamperedToken), BearerHeader(ExpiredToken)} =>
               q.status = 403

\* A request with user 1's valid token is inside the /meal-plan handler with
\* user 1's identity attached.
C1_Witness ==
  \E r \in Reqs :
    /\ req[r].route = "meal-plan" /\ req[r].pc = "insertPlan"
    /\ req[r].hdr = BearerHeader(TokenFor(User1))
    /\ req[r].nextCalls = 1
    /\ req[r].user = [userId |-> User1.id, email |-> User1.email]

\* C2: on each protected route a request without a token is answered 401 and
\* one with a tampered token 403, and no step of such a request inserts,
\* updates or deletes a database row or calls the model.
C2_RejectedHasNoEffect ==
  [][\A r \in Reqs :
       LET before == req[r]
           after == req'[r]
       IN  /\ (after # before /\ after.route \in ProtectedRoutes
               /\ after.hdr \in {Undefined, Str(<<Bearer>>)}) =>
                 after.status = 401 /\ after.pc = "done" /\ UNCHANGED Effects
           /\ (after # before /\ after.route \in ProtectedRoutes
               /\ after.hdr = BearerHeader(TamperedToken)) =>
                 after.status = 403 /\ after.pc = "done" /\ UNCHANGED Effects
           /\ (after # before /\ before.route \in ProtectedRoutes
               /\ before.hdr \in {Undefined, Str(<<Bearer>>), BearerHeader(TamperedToken)}) =>
                 UNCHANGED Effects
    ]_vars

\* A tampered token was answered 403 on /meal-plan while a plan of another
\* request is stored.
C2_Witness ==
  /\ meal_plans # {}
  /\ \E r \in Reqs :
       /\ req[r].route = "meal-plan" /\ req[r].status = 403
       /\ req[r].hdr = BearerHeader(TamperedToken)

\* C3: no two users share an e-mail, also when registrations run concurrently,
\* and a registration whose e-mail equals a registered one is answered 409 and
\* leaves the users table as it was.
C3_UniqueEmail ==
  /\ [](\A u1, u2 \in users : u1.email = u2.email => u1 = u2)
  /\ [][\A r \in Reqs :
          (req[r].route = "register" /\ req[r].pc = "insert" /\ req'[r].pc = "done") =>
            IF \E u \in users : u.email = req[r].body.email.s
              THEN req'[r].status = 409 /\ users' = users
              ELSE req'[r].status = 201 /\ Cardinality(users') = Cardinality(users) + 1
       ]_vars

\* Two concurrent registrations of one e-mail: both passed validation before
\* either inserted, one was answered 201 and the other 409.
C3_Witness ==
  \E r1, r2 \in Reqs :
    /\ req[r1].route = "register" /\ req[r1].status = 201
    /\ req[r2].route = "register" /\ req[r2].status = 409
    /\ req[r1].body.email = req[r2].body.email
    /\ Cardinality(users) = 1

\* C4: the e-mail stored by a successful registration is the trimmed,
\* lower-cased form of the submitted one, so that two submissions differing
\* only in letter case are never both registered.
C4_EmailStoredLowerCased ==
  /\ [][\A r \in Reqs :
          (req[r].route = "register" /\ req[r].pc = "insert" /\ req'[r].status = 201) =>
            \E u \in users' \ users : u.email = ToLower(Trim(req[r].body.email.s))
       ]_vars
  /\ [](\A u1, u2 \in users : ToLower(u1.email) = ToLower(u2.email) => u1 = u2)

\* C5: a login with a registered e-mail and its registered password is
\* answered 200 with a token whose claims are that user's id and e-mail; a
\* login with a password that is not the registered one is answered 401,
\* whatever the e-mail.
C5_Login ==
  [][\A r \in Reqs :
       (req'[r].route = "login" /\ req'[r].pc = "done" /\ req[r].pc # "done") =>
         LET b == req'[r].body
             owners == {u \in users : IsString(b.email) /\ IsString(b.password)
                                      /\ u.email = b.email.s
                                      /\ u.password_hash = BcryptHash(b.password.s)}
         IN  /\ \A u \in owners :
                  /\ req'[r].status = 200
                  /\ req'[r].resp.token = JwtSign(u.id, u.email)
             /\ (IsString(b.password)
                 /\ \A u \in users : u.password_hash # BcryptHash(b.password.s)) =>
                  req'[r].status = 401
    ]_vars

\* The token sequence q is one well-formed JSON object whose recipes member is
\* an array.
IsPlanObject(q) ==
  LET v == JSONParse(q)
  IN  v # SyntaxError /\ v.t = "obj" /\ v.recipes.t = "arr"

\* C6 as stated: parseRecipeJSON returns the plan for every text that contains
\* a well-formed JSON object with an array recipes member, whatever surrounds
\* the object.
C6_AnySurroundingProse ==
  parsed # NotRun =>
    \A i, j \in 1..Len(text) :
      (i <= j /\ IsPlanObject(SubSeq(text, i, j))) => parsed.t = "obj"

\* C6: parseRecipeJSON returns the plan for every text that contains a
\* well-formed JSON object with an array recipes member, provided the text
\* holds no "{" before the object and no "}" after it.
C6_ProseWithoutBraces ==
  parsed # NotRun =>
    \A i, j \in 1..Len(text) :
      (/\ i <= j
       /\ \A k \in 1..(i - 1) : text[k] # "{"
       /\ \A k \in (j + 1)..Len(text) : text[k] # "}"
       /\ IsPlanObject(SubSeq(text, i, j))) =>
        parsed = JSONParse(SubSeq(text, i, j))

\* The plan was extracted from a text with prose in front of the object.
C6_Witness ==
  /\ text = <<"s", "{", "R", "[", "]", "}">>
  /\ parsed = [t |-> "obj", recipes |-> [t |-> "arr", items |-> <<>>]]

\* C7: parseRecipeJSON returns a plan exactly when the span from the first "{"
\* of the text to its last "}" parses to an object whose recipes member is an
\* array; in every other case it returns null, and it never throws.
C7_FirstToLastBrace ==
  parsed # NotRun =>
    /\ parsed # SyntaxError
    /\ parsed = Null \/ parsed.t = "obj"
    /\ parsed # Null <=>
         \E i, j \in 1..Len(text) :
           /\ i < j /\ text[i] = "{" /\ text[j] = "}"
           /\ \A k \in 1..(i - 1) : text[k] # "{"
           /\ \A k \in (j + 1)..Len(text) : text[k] # "}"
           /\ IsPlanObject(SubSeq(text, i, j))

\* Null was returned for a text whose span parses to an object with a recipes
\* member that is no array.
C7_Witness ==
  /\ text = <<"s", "{", "R", "s", "}", "s">>
  /\ BraceMatch(text) = Str(<<"{", "R", "s", "}">>)
  /\ parsed = Null

\* A /meal-plan payload the claim calls invalid: empty recipes array, missing
\* or blank plan_name, servings that is no positive integer.
InvalidPlanPayload(b) ==
  \/ b.recipes = Arr(<<>>)
  \/ b.plan_name = Undefined
  \/ (b.plan_name.t = "str" /\ Trim(b.plan_name.s) = <<>>)
  \/ b.servings.t # "num"
  \/ (b.servings.t = "num" /\ (b.servings.n % 1000 # 0 \/ b.servings.n <= 0))

\* C8: an authenticated /meal-plan request with an empty recipes array, a
\* missing or blank plan_name, or a servings value that is no positive integer
\* is answered 400 on arrival, never enters the inserting steps, and leaves
\* meal_plans, recipes and ingredients unchanged.
C8_InvalidPlanRejected ==
  /\ [](\A r \in Reqs :
          (req[r].route = "meal-plan" /\ req[r].nextCalls = 1
           /\ InvalidPlanPayload(req[r].body)) =>
            req[r].status = 400 /\ req[r].pc = "done")
  /\ [][\A r \in Reqs :
          (req'[r] # req[r] /\ req'[r].route = "meal-plan" /\ req'[r].nextCalls = 1
           /\ InvalidPlanPayload(req'[r].body)) =>
            UNCHANGED <<meal_plans, recipes, ingredients>>
       ]_vars

\* An authenticated /meal-plan request with an empty recipes array was
\* answered 400.
C8_Witness ==
  \E r \in Reqs :
    /\ req[r].route = "meal-plan" /\ req[r].nextCalls = 1
    /\ req[r].body.recipes = Arr(<<>>)
    /\ req[r].status = 400

\* C9: after a /meal-plan request is answered 201, the stored plan total
\* equals the sum of the stored costs of the plan's recipes and equals the
\* total in the response, and the plan has one recipe row per submitted recipe
\* and one ingredient row per submitted ingredient.
C9_TotalIsSumOfRecipeCosts ==
  \A r \in Reqs :
    (req[r].route = "meal-plan" /\ req[r].status = 201) =>
      LET id == req[r].resp.meal_plan_id
          p == CHOOSE x \in meal_plans : x.id = id
          rs == {x \in recipes : x.meal_plan_id = id}
          sent == req[r].body.recipes.items
      IN  /\ p.total_estimated_cost = SumOver(rs, [x \in rs |-> x.estimated_cost])
          /\ p.total_estimated_cost = req[r].resp.total_estimated_cost
          /\ Cardinality(rs) = Len(sent)
          /\ Cardinality(PlanIngredients(id)) =
               SumOver(DOMAIN sent, [k \in DOMAIN sent |-> Len(IngredientsOf(sent[k]))])

\* C10: a plan is persisted atomically: no concurrent reader runs its query
\* over a plan's ingredients while the request that creates the plan still
\* has recipe or ingredient rows to insert.
C10_NoPartialPlanObserved ==
  [][\A r \in Reqs :
       (req[r].route = "shopping-list" /\ req[r].pc = "aggregate"
        /\ req'[r].pc # "aggregate") =>
         ~\E w \in Reqs :
            /\ req[w].route = "meal-plan" /\ req[w].pc \in {"recipe", "ingredient"}
            /\ loc[w].mealPlanId = req[r].body.plan_id.n
    ]_vars

\* C11: when an insert or update of a /meal-plan request fails after the plan
\* row was inserted, the request's writes are rolled back: once it has ended
\* with an error, no plan row and no recipe row of that request exists.
C11_FailedPlanRolledBack ==
  [][\A r \in Reqs :
       (req[r].route = "meal-plan" /\ req[r].pc \in {"recipe", "ingredient", "update"}
        /\ req'[r].pc = "done" /\ req'[r].status >= 500) =>
         /\ ~\E p \in meal_plans' : p.id = loc[r].mealPlanId
         /\ ~\E rc \in recipes' : rc.meal_plan_id = loc[r].mealPlanId
    ]_vars

\* C12: GET /shopping-list answers 404 when the plan does not exist or belongs
\* to a user other than the caller, and then no shopping_lists row and no
\* shopping_list_items row is created, modified or deleted; for the caller's
\* own plan the request goes on.
C12_ForeignPlanNotFound ==
  /\ [][\A r \in Reqs :
          (req[r].route = "shopping-list" /\ req[r].pc = "selectPlan"
           /\ req'[r] # req[r]) =>
            IF \E p \in meal_plans :
                 p.id = req[r].body.plan_id.n /\ p.user_id = req[r].user.userId
              THEN req'[r].pc = "selectList" /\ req'[r].status = 0
              ELSE /\ req'[r].pc = "done" /\ req'[r].status = 404
                   /\ UNCHANGED <<shopping_lists, shopping_list_items>>
       ]_vars
  /\ [][\A r \in Reqs :
          (req[r].route = "shopping-list" /\ req[r].status = 404) =>
            (req'[r] # req[r] => req'[r] = IdleReq
                                 /\ UNCHANGED <<shopping_lists, shopping_list_items>>)
       ]_vars

\* User 2 asked for the list of user 1's plan, which has a list, and was
\* answered 404.
C12_Witness ==
  /\ \E p \in meal_plans : p.id = 1 /\ p.user_id = User1.id
  /\ \E l \in shopping_lists : l.meal_plan_id = 1
  /\ \E r \in Reqs :
       /\ req[r].route = "shopping-list" /\ req[r].status = 404
       /\ req[r].user.userId = User2.id /\ req[r].body.plan_id = Num(1)

\* C13: in every reachable state, whatever the interleaving of GET
\* /shopping-list requests, each meal plan has at most one shopping_lists row.
C13_OneListPerPlan ==
  \A l1, l2 \in shopping_lists : l1.meal_plan_id = l2.meal_plan_id => l1 = l2

(* ---- The generated shopping list ---- *)
\* The GET /shopping-list requests answered with 200.
ListAnswers ==
  {r \in Reqs : req[r].route = "shopping-list" /\ req[r].pc = "done" /\ req[r].status = 200}

RowsOf(items) == {items[n] : n \in DOMAIN items}

KeyOf(i) == <<i.ingredient_name.s, IF i.unit = SqlNull THEN <<>> ELSE i.unit.s, i.category>>

NonNullSum(S, col) ==
  LET nn == {i \in S : i[col] # SqlNull}
  IN  IF nn = {} THEN SqlNull ELSE Num(SumOver(nn, [i \in nn |-> i[col].n]))

\* C14: once a GET /shopping-list that ran alone has answered 200, the list
\* holds exactly one item per aggregation key (ingredient name, unit with null
\* as the empty string, category) over all ingredients of all recipes of the
\* plan, each with the sums of the non-null quantities and prices of its group
\* and checked = false; two egg/pcs ingredients of one category with quantities
\* 2 and 3 and prices 1.00 and 1.50 give exactly one item, 5 and 2.50.
C14_OneItemPerGroup ==
  Settled =>
    \A r \in ListAnswers :
      LET plan == req[r].body.plan_id.n
          ings == {i \in ingredients :
                    \E rc \in recipes : rc.id = i.recipe_id /\ rc.meal_plan_id = plan}
          keys == {KeyOf(i) : i \in ings}
          stored == ListItems(req[r].resp.shopping_list_id)
          items == req[r].resp.items
          eggs == {i \in ings : i.ingredient_name.s = Egg /\ i.unit = Chars(Pcs)}
          eggItems == {n \in DOMAIN items :
                        items[n].ingredient_name.s = Egg /\ items[n].unit = Chars(Pcs)}
      IN  /\ \A x \in DOMAIN stored : stored[x] = 1
          /\ {ItemFields(x) : x \in DOMAIN stored} = RowsOf(items)
          /\ Len(items) = Cardinality(keys)
          /\ \A k \in keys :
               \E x \in RowsOf(items) :
                 /\ KeyOf(x) = k
                 /\ x.quantity = NonNullSum({i \in ings : KeyOf(i) = k}, "quantity")
                 /\ x.estimated_price =
                      NonNullSum({i \in ings : KeyOf(i) = k}, "estimated_price")
          /\ \A x \in RowsOf(items) : x.checked = FALSE
          /\ (/\ Cardinality(eggs) = 2
              /\ {i.quantity : i \in eggs} = {Num(2000), Num(3000)}
              /\ {i.estimated_price : i \in eggs} = {Num(1000), Num(1500)}
              /\ Cardinality({i.category : i \in eggs}) = 1)
             => /\ Cardinality(eggItems) = 1
                /\ \A n \in eggItems : /\ items[n].quantity = Num(5000)
                                        /\ items[n].estimated_price = Num(2500)

C14_Witness ==
  /\ Settled
  /\ \E r \in ListAnswers :
       /\ Len(req[r].resp.items) = 3
       /\ \E x \in RowsOf(req[r].resp.items) :
            /\ x.ingredient_name.s = Egg /\ x.quantity = Num(5000)
            /\ x.estimated_price = Num(2500)
       /\ \E x \in RowsOf(req[r].resp.items) :
            /\ x.ingredient_name.s = Milk /\ x.unit = SqlNull /\ x.category = Chars(Dairy)
            /\ x.quantity = Num(1000) /\ x.estimated_price = Num(800)

\* C15: once a GET /shopping-list that ran alone has answered 200, the
\* total_cost of the response and the total_cost of the shopping_lists row both
\* equal the sum of the prices of the list's items whose price is not null.
C15_TotalIsSumOfItemPrices ==
  Settled =>
    \A r \in ListAnswers :
      LET items == req[r].resp.items
          priced == {n \in DOMAIN items : items[n].estimated_price # SqlNull}
          sum == SumOver(priced, [n \in priced |-> items[n].estimated_price.n])
      IN  /\ req[r].resp.total_cost = sum
          /\ \E l \in shopping_lists : l.id = req[r].resp.shopping_list_id
          /\ \A l \in shopping_lists :
               l.id = req[r].resp.shopping_list_id => l.total_cost = sum

C15_Witness ==
  /\ Settled
  /\ \E r \in ListAnswers :
       /\ req[r].resp.total_cost = 3300
       /\ \E x \in RowsOf(req[r].resp.items) : x.estimated_price = SqlNull
       /\ \E l \in shopping_lists :
            l.id = req[r].resp.shopping_list_id /\ l.total_cost = 3300

\* C16: two generations of the shopping list of one plan, one after the other
\* with the plan's recipes and ingredients unchanged, answer with the same
\* shopping_list_id, the same items and the same total_cost, and the stored
\* list then holds the items of the answer and nothing left from the first.
C16_RegenerationIsIdempotent ==
  /\ \A r1, r2 \in ListAnswers :
       req[r1].body.plan_id = req[r2].body.plan_id =>
         /\ req[r1].resp.shopping_list_id = req[r2].resp.shopping_list_id
         /\ Len(req[r1].resp.items) = Len(req[r2].resp.items)
         /\ RowsOf(req[r1].resp.items) = RowsOf(req[r2].resp.items)
         /\ req[r1].resp.total_cost = req[r2].resp.total_cost
  /\ Settled =>
       \A r \in ListAnswers :
         LET stored == ListItems(req[r].resp.shopping_list_id)
         IN  /\ BagCardinality(stored) = Len(req[r].resp.items)
             /\ {ItemFields(x) : x \in BagToSet(stored)} = RowsOf(req[r].resp.items)

C16_Witness ==
  /\ Settled
  /\ \E r1, r2 \in ListAnswers :
       /\ r1 # r2
       /\ req[r1].body.plan_id = req[r2].body.plan_id
       /\ Len(req[r2].resp.items) = 3
       /\ BagCardinality(ListItems(req[r2].resp.shopping_list_id)) = 3

\* C17: the items of a GET /shopping-list answer come ordered by category, the
\* items without category after all others, and by ingredient name within a
\* category.
C17_ItemsOrdered ==
  \A r \in ListAnswers :
    LET items == req[r].resp.items
    IN  \A m, n \in DOMAIN items :
          m < n =>
            /\ items[m].category = SqlNull => items[n].category = SqlNull
            /\ (items[m].category # SqlNull /\ items[n].category # SqlNull)
                 => ~TextLess(items[n].category.s, items[m].category.s)
            /\ items[m].category = items[n].category
                 => ~TextLess(items[n].ingredient_name.s, items[m].ingredient_name.s)

C17_Witness ==
  \E r \in ListAnswers :
    LET items == req[r].resp.items
    IN  /\ Len(items) = 3
        /\ items[1].ingredient_name.s = Egg /\ items[1].category = Chars(Dairy)
        /\ items[2].ingredient_name.s = Milk /\ items[2].category = Chars(Dairy)
        /\ items[3].category = SqlNull

(* ---- Affiliate links ---- *)
\* The POST /affiliate-link requests that passed the gate and were answered.
AffiliateAnswers ==
  {r \in Reqs : /\ req[r].route = "affiliate-link" /\ req[r].pc = "done"
                /\ GateStatus(req[r].hdr) = 0}

BlankQuery(b) == ~IsString(b.search_query) \/ Trim(b.search_query.s) = <<>>

BadChatFields(b) ==
  \/ ~IsString(b.user_message) \/ Trim(b.user_message.s) = <<>>
  \/ ~IsString(b.conversation_id) \/ Trim(b.conversation_id.s) = <<>>

\* C19: a POST /chat that passed the gate with a missing or blank user_message
\* or conversation_id is answered 400 (also when the API key is unset), and one
\* with both fields given while the API key is unset is answered 503; in both
\* cases the request writes no chat message and makes no model call: messages
\* are written and the model is called only by requests that were accepted.
C19_ChatRefusedEarly ==
  [][ /\ \A r \in Reqs :
          (req[r].pc = "idle" /\ req'[r].route = "chat" /\ GateStatus(req'[r].hdr) = 0) =>
            (LET bad == BadChatFields(req'[r].body)
             IN  /\ bad => (req'[r].pc = "done" /\ req'[r].status = 400)
                 /\ (~bad /\ ~apiKeySet) => (req'[r].pc = "done" /\ req'[r].status = 503)
                 /\ (bad \/ ~apiKeySet) => UNCHANGED <<chat_messages, modelCalls>>)
      /\ \A r \in Reqs :
          (req[r].route = "chat" /\ req[r].pc = "done" /\ req[r].status \in {400, 503}) =>
            req'[r] \in {req[r], IdleReq}
      /\ (chat_messages' # chat_messages \/ modelCalls' # modelCalls) =>
           (\E r \in Reqs :
              /\ req[r].route = "chat" /\ InFlight(r)
              /\ ~BadChatFields(req[r].body) /\ apiKeySet)
     ]_vars

C19_Witness ==
  /\ ~apiKeySet /\ chat_messages = <<>> /\ modelCalls = 0
  /\ \E r \in Reqs :
       /\ req[r].route = "chat" /\ req[r].pc = "done" /\ req[r].status = 503
       /\ req[r].body = [user_message |-> Str(Hi), conversation_id |-> Str(Conv)]

\* C20: a POST /chat request calls the model API at most once: every call is
\* the one step that takes the request from the call to the assistant's turn
\* or to its answer; when the call fails the request is answered 500 or 503 by
\* that same step, without a second call and without an assistant turn written.
C20_OneModelCallNoRetry ==
  [][ /\ modelCalls' \in {modelCalls, modelCalls + 1}
      /\ modelCalls' = modelCalls + 1 =>
           (\E r \in Reqs :
              /\ req[r].route = "chat" /\ req[r].pc = "callModel"
              /\ req'[r].pc \in {"insertAssistant", "done"})
      /\ \A r \in Reqs :
           /\ (req'[r].pc = "callModel" /\ req[r].pc # "callModel") => req[r].pc = "history"
           /\ (req[r].route = "chat" /\ req[r].pc = "callModel" /\ req'[r].pc = "done") =>
                (/\ req'[r].status \in {500, 503}
                 /\ chat_messages' = chat_messages)
           /\ (req[r].route = "chat" /\ req[r].pc = "done") => req'[r] \in {req[r], IdleReq}
     ]_vars

C20_Witness ==
  /\ modelCalls = 1
  /\ Len(chat_messages) = 1 /\ chat_messages[1].sender = "user"
  /\ \E r \in Reqs :
       req[r].route = "chat" /\ req[r].pc = "done" /\ req[r].status = 500

(* ---- Connections and responses ---- *)
\* C21: every request that checked out a pool connection gives it back exactly
\* once by the time it is answered, whether with a success, an early error
\* (401/404/409) or after a thrown error: the checked-out connections are
\* exactly those of the requests in flight, so they never exceed the requests
\* in flight and are none once every request has finished.
C21_ConnectionsReleased ==
  /\ checkedOut = Cardinality({r \in Reqs : InFlight(r)})
  /\ (\A r \in Reqs : ~InFlight(r)) => checkedOut = 0

C21_Witness ==
  /\ checkedOut = 1
  /\ \E r \in Reqs : req[r].route = "chat" /\ req[r].pc = "done" /\ req[r].status = 500
  /\ \E r \in Reqs : InFlight(r)

\* The status codes of the error taxonomy, and those of success.
TaxonomyCodes == {200, 201, 400, 401, 403, 404, 409, 500, 502, 503}

\* C22: every request gets exactly one response: an answered request has been
\* sent one response, with a status of the taxonomy (500 when the handler's
\* catch answered), a request being served has been sent none, and an
\* answered request is not answered again.
C22_ExactlyOneResponse ==
  \A r \in Reqs :
    /\ req[r].pc = "done" => (req[r].sent = 1 /\ req[r].status \in TaxonomyCodes)
    /\ req[r].pc # "done" => req[r].sent = 0

C22_Witness ==
  /\ \E r \in Reqs :
       /\ req[r].route = "chat" /\ req[r].pc = "done"
       /\ req[r].status = 500 /\ req[r].sent = 1
  /\ \E r \in Reqs :
       /\ req[r].route = "register" /\ req[r].pc = "done"
       /\ req[r].status = 409 /\ req[r].sent = 1

(* ---- The conversation store ---- *)
\* The number of messages user uid has sent: the user turns stored for uid.
MessagesSent(uid) ==
  Cardinality({i \in DOMAIN chat_messages :
                 chat_messages[i].user_id = uid /\ chat_messages[i].sender = "user"})

\* C23: once a user has sent 10 chat messages, a further POST /chat of that
\* user (with both fields given) is answered 429, and it is neither stored nor
\* forwarded to the model.
C23_QuotaEnforced ==
  [][ \A r \in Reqs :
        (/\ req[r].pc = "idle" /\ req'[r].route = "chat"
         /\ req'[r].user # Undefined
         /\ ~BadChatFields(req'[r].body)
         /\ MessagesSent(req'[r].user.userId) >= MESSAGE_QUOTA_PER_USER)
        => (/\ req'[r].pc = "done" /\ req'[r].status = 429
            /\ UNCHANGED <<chat_messages, modelCalls>>)
    ]_vars

\* The stored turns that carry the caller's user id and the conversation id of
\* request r as r sent it (trimmed).
OwnTurns(r) ==
  {i \in DOMAIN chat_messages :
     /\ chat_messages[i].user_id = req[r].user.userId
     /\ chat_messages[i].conversation_id = Trim(req[r].body.conversation_id.s)}

\* C24: the conversation store only grows at its end, no stored turn is
\* changed or removed, and the history a POST /chat request reads for the
\* model holds the turns with the caller's user id and the request's
\* conversation id and no others, also when another user has turns under the
\* same conversation id.
C24_AppendOnlyOwnHistory ==
  [][ /\ \/ chat_messages' = chat_messages
         \/ /\ Len(chat_messages') = Len(chat_messages) + 1
            /\ SubSeq(chat_messages', 1, Len(chat_messages)) = chat_messages
      /\ \A r \in Reqs :
           (req[r].route = "chat" /\ req[r].pc = "history" /\ req'[r].pc = "callModel") =>
             (/\ Len(loc'[r].messages) = Cardinality(OwnTurns(r))
              /\ \A k \in DOMAIN loc'[r].messages :
                   \E i \in OwnTurns(r) :
                     /\ loc'[r].messages[k].content = chat_messages[i].message_text
                     /\ loc'[r].messages[k].role = chat_messages[i].sender)
    ]_vars

C24_Witness ==
  \E r \in Reqs :
    /\ req[r].route = "chat" /\ req[r].pc = "callModel"
    /\ req[r].user.userId = User1.id
    /\ Len(loc[r].messages) = 2 * MESSAGE_QUOTA_PER_USER + 1
    /\ \E i \in DOMAIN chat_messages :
         /\ chat_messages[i].user_id = User2.id
         /\ chat_messages[i].conversation_id = Trim(req[r].body.conversation_id.s)

\* C26: whenever a POST /chat request is about to call the model, the history
\* it sends is not empty and holds the request's own trimmed user message,
\* whatever the non-blank conversation_id, also one of more than 100
\* characters.
C26_HistoryHoldsOwnMessage ==
  \A r \in Reqs :
    (req[r].route = "chat" /\ req[r].pc = "callModel") =>
      /\ loc[r].messages # <<>>
      /\ \E k \in DOMAIN loc[r].messages :
           loc[r].messages[k] =
             [role |-> "user", content |-> Trim(req[r].body.user_message.s)]

\* C27: once the POST /chat requests have finished, each user turn of a
\* conversation is followed, within its conversation, by an assistant turn
\* (so no two user turns are consecutive), also after a failed model call.
C27_EveryUserTurnAnswered ==
  (\A q \in Reqs : ~(req[q].route = "chat" /\ InFlight(q))) =>
    \A i \in DOMAIN chat_messages :
      chat_messages[i].sender = "user" =>
        LET later == {j \in DOMAIN chat_messages :
                        /\ j > i
                        /\ chat_messages[j].user_id = chat_messages[i].user_id
                        /\ chat_messages[j].conversation_id =
                             chat_messages[i].conversation_id}
        IN  /\ later # {}
            /\ \A j \in later :
                 (\A m \in later : j <= m) => chat_messages[j].sender = "assistant"

(* ---- Overlapping regenerations of a shopping list ---- *)
\* The sum of the prices of the items stored for a list, each copy counted.
StoredPriceSum(listId) ==
  LET stored == ListItems(listId)
      priced == {x \in DOMAIN stored : x.estimated_price # SqlNull}
  IN  SumOver(priced, [x \in priced |-> stored[x] * x.estimated_price.n])

\* C25: the DELETE of a list's items and their re-insertion are separate
\* steps, so overlapping GET /shopping-list requests for a plan can leave
\* several items for one aggregation key.  Once the requests have finished,
\* every stored item is still the item of its group and total_cost is still
\* the total of one aggregation, so a list with an item stored more than once
\* holds more items than the plan has groups, and when such an item has a
\* price the prices of the stored items add up to more than total_cost.
C25_OverlapLeavesDuplicates ==
  Settled =>
    \A l \in shopping_lists :
      LET ings == {i \in ingredients :
                    \E rc \in recipes : rc.id = i.recipe_id /\ rc.meal_plan_id = l.meal_plan_id}
          keys == {KeyOf(i) : i \in ings}
          stored == ListItems(l.id)
          once == NonNullSum(ings, "estimated_price")
      IN  /\ \A x \in DOMAIN stored :
               /\ KeyOf(x) \in keys
               /\ x.quantity = NonNullSum({i \in ings : KeyOf(i) = KeyOf(x)}, "quantity")
               /\ x.estimated_price =
                    NonNullSum({i \in ings : KeyOf(i) = KeyOf(x)}, "estimated_price")
          /\ \A k \in keys : \E x \in DOMAIN stored : KeyOf(x) = k
          /\ l.total_cost = IF once = SqlNull THEN 0 ELSE once.n
          /\ (\E x \in DOMAIN stored : stored[x] > 1)
               => BagCardinality(stored) > Cardinality(keys)
          /\ (\E x \in DOMAIN stored : stored[x] > 1 /\ x.estimated_price # SqlNull)
               => StoredPriceSum(l.id) > l.total_cost

C25_Witness ==
  /\ Settled
  /\ \E r1, r2 \in Reqs :
       /\ r1 # r2
       /\ req[r1].route = "shopping-list" /\ req[r1].status = 200
       /\ req[r2].route = "shopping-list" /\ req[r2].status = 200
  /\ \E l \in shopping_lists :
       /\ \E x \in DOMAIN ListItems(l.id) :
            /\ ListItems(l.id)[x] = 2 /\ x.ingredient_name.s = Egg
       /\ BagCardinality(ListItems(l.id)) = 4
       /\ l.total_cost = 1000 /\ StoredPriceSum(l.id) = 2000

(* ---- The frontend's session state ---- *)
\* sendMessage starts no chat request while one is awaited or the input is blank.
NoSendWhileLoadingOrBlank ==
  [][fetches'.chat > fetches.chat =>
       (fetches.chat = 0 /\ ~app.chatLoading /\ Trim(app.input) # <<>>)]_vars

\* chatLoading is true exactly while a chat request is awaited.
LoadingWhileAwaited == app.chatLoading <=> fetches.chat > 0

\* While the token is empty nothing of a session is held.
LoggedOutIsEmpty ==
  app.token = <<>> =>
    /\ app.messages = <<>> /\ app.mealPlan = Null
    /\ app.savedPlanId = Null /\ app.shoppingList = Null

\* C28: sendMessage starts no new chat request while one is in flight or the
\* input is blank; chatLoading is true exactly while a chat request is in
\* flight, being reset on success and on failure; and whenever the token is
\* empty, messages is empty and mealPlan, savedPlanId and shoppingList are
\* null, also when a response of the previous session arrives after the logout.
C28_SessionState ==
  /\ NoSendWhileLoadingOrBlank
  /\ []LoadingWhileAwaited
  /\ []LoggedOutIsEmpty

====
